---- MODULE Spec2Model ----
(***************************************************************************)
(* Model of the FindMyProject scraper core: ScraperOrchestrator driving    *)
(* BaseAdapter.scrape of the single registered FreelancerAdapter.          *)
(*                                                                         *)
(* The orchestrator is one sequential async function                      *)
(* (scrapeFromMultiplePlatforms); every scrape call it makes is a process  *)
(* of its own (indexed by its position in the request list) that advances  *)
(* one awaited collaborator call at a time.  The rendering collaborator    *)
(* (Playwright) and the persistence helpers are external: each of their    *)
(* calls either succeeds or throws, chosen nondeterministically.           *)
(***************************************************************************)
EXTENDS Integers, Sequences, FiniteSets, TLC

\* ------------------------------------------------------------------ bounds
MaxPlatforms == 2
MaxElems == 2
MaxCfgJobs == 1
NegCfgJobs == 1
MaxRetryAttempts == 4
MaxBaseDelay == 3
MaxStrLen == 3
MaxTitleLen == 1
MaxSkills == 1
MaxTags == 2
MaxStatResults == 2
MaxStatJobs == 1
MaxLines == 2
MaxTitleEls == 1
MaxDescEls == 1
MaxUpdates == 2
NegRetryAttempts == 1

\* --------------------------------------------------------------- constants
retryAttempts == 3
NumReadySelectors == 5
TopN == 10
Registered == {"freelancer"}
PlatformIds == {"freelancer", "upwork"}
platformName == "freelancer"
Tiers == <<"modern", "legacy", "generic">>

Calls == 1..MaxPlatforms
None == <<>>

VARIABLES
  \* orchestrator
  platforms, maxJobs, idx, opc, cur, othrown, results, waits, persisted, combined,
  \* adapter instance fields and the rendering collaborator's resources
  browser, page, created, open, closeCalled, touched,
  \* one record of locals per scrape call
  spc, ejobs, nExtracted, sres, stageErr, cleanups, tierLog, elems,
  \* page loads requested per scrape call, and the persistence calls made
  loads, saveLog,
  \* BaseAdapter.retry: its arguments, the operation's behaviour and its locals
  maxAttempts, baseDelay, rpc, attempt, delay, invocations, failures, rwaits, lastError, rraised,
  \* createCsvContent: the jobs to serialize, the text produced, the rows read back
  cjobs, cpc, csvContent, parsed,
  \* navigateToJobsPage: ready selectors probed so far by each call, and its contentLoaded
  probes, contentLoaded,
  \* getStatistics: its argument and the value it returned
  statResults, stats,
  \* buildSearchUrl: its argument and the value it returned
  filters, url,
  \* extractJobFromElement: its position, what the element's text and children
  \* gave, and the fields extracted so far
  epc, lines, titleEls, descEls, href, listing,
  \* the orchestrator's configuration, its registry (platform id -> adapter
  \* instance) and the configuration held by every adapter instance ever built
  config, adapters, instances

ovars == <<platforms, maxJobs, idx, opc, cur, othrown, results, waits, persisted, combined>>
avars == <<browser, page, created, open, closeCalled, touched>>
cvars == <<spc, ejobs, nExtracted, sres, stageErr, cleanups, tierLog, elems>>
xvars == <<loads, saveLog>>
rvars == <<maxAttempts, baseDelay, rpc, attempt, delay, invocations, failures, rwaits, lastError, rraised>>
kvars == <<cjobs, cpc, csvContent, parsed>>
nvars == <<probes, contentLoaded>>
svars == <<statResults, stats>>
uvars == <<filters, url>>
evars == <<epc, lines, titleEls, descEls, href, listing>>
pvars == <<svars, uvars, evars, config, adapters, instances>>
vars == <<ovars, avars, cvars, nvars, xvars, rvars, kvars, pvars>>

\* ------------------------------------------------------------ pure helpers
RECURSIVE SeqsUpTo(_, _)
SeqsUpTo(S, n) ==
  IF n = 0 THEN {<<>>}
  ELSE LET shorter == SeqsUpTo(S, n - 1)
       IN shorter \cup {Append(s, x) : s \in {t \in shorter : Len(t) = n - 1}, x \in S}

Min(a, b) == IF a < b THEN a ELSE b
Max(a, b) == IF a > b THEN a ELSE b

\* a thrown value: an Error instance with a message, or some other value.
\* Playwright rejects with Error instances; the catch block of scrape treats
\* every stage alike, so the non-Error value is raised by the first
\* collaborator call only
Throwables(stage) ==
  {[isError |-> TRUE, message |-> stage]}
  \cup (IF stage = "launch" THEN {[isError |-> FALSE, message |-> "raw"]} ELSE {})

\* error instanceof Error ? error.message : 'Unknown error'
ErrorMessage(e) == IF e.isError THEN e.message ELSE "Unknown error"

\* Array.prototype.slice(0, m) for an integer m
Slice_nocap(s, m) == s
Slice(s, m) ==
  LET k == IF m >= 0 THEN Min(m, Len(s)) ELSE Max(Len(s) + m, 0)
  IN SubSeq(s, 1, k)

\* Array.prototype.indexOf: 0-based index of the first occurrence
IndexOf(ps, p) ==
  (CHOOSE i \in 1..Len(ps) : ps[i] = p /\ \A j \in 1..(i - 1) : ps[j] # p) - 1

\* platforms.indexOf(platform) < platforms.length - 1
DelayNeeded(ps, i) == IndexOf(ps, ps[i]) < Len(ps) - 1

\* extractJobs: if (jobs.length === 0) try the next strategy
TryNextTier_always(jobs) == TRUE
TryNextTier(jobs) == Len(jobs) = 0

\* the elements one tier's query hands to extractJobFromElement: "ok" yields a
\* JobData, "bad" makes extractJobFromElement return null (or throw)
ElementKinds == {"ok", "bad"}
TierContents == SeqsUpTo(ElementKinds, MaxElems)

\* extractJobFromElement stamps platform: "freelancer" itself; a job is
\* identified by its rank in discovery order among the extracted jobs
JobOf(i) == [id |-> i, platform |-> "freelancer"]

\* for (const element of elements) { try { job = await extractJobFromElement(
\* element); if (job) jobs.push(job) } catch { log } }
\* (i is the element reached, n the number of jobs pushed so far)
RECURSIVE ExtractFrom_abort(_, _, _)
ExtractFrom_abort(content, i, n) ==
  IF i > Len(content) THEN <<>>
  ELSE IF content[i] = "ok"
         THEN <<JobOf(n + 1)>> \o ExtractFrom_abort(content, i + 1, n + 1)
         ELSE <<>>
RECURSIVE ExtractFrom(_, _, _)
ExtractFrom(content, i, n) ==
  IF i > Len(content) THEN <<>>
  ELSE IF content[i] = "ok"
         THEN <<JobOf(n + 1)>> \o ExtractFrom(content, i + 1, n + 1)
         ELSE ExtractFrom(content, i + 1, n)

ExtractAll(content) == ExtractFrom(content, 1, 0)

\* jobs.map(job => ({...job, platform: this.platformName}))
Stamp_other(jobs) == [i \in 1..Len(jobs) |-> [jobs[i] EXCEPT !.platform = "upwork"]]
Stamp(jobs) == [i \in 1..Len(jobs) |-> [jobs[i] EXCEPT !.platform = platformName]]

SuccessResult(jobs) ==
  [jobs |-> jobs, totalFound |-> Len(jobs), platform |-> platformName,
   searchQuery |-> "summary", success |-> TRUE, errors |-> <<>>]

FailureResult(jobs, e) ==
  [jobs |-> jobs, totalFound |-> Len(jobs), platform |-> platformName,
   searchQuery |-> "summary", success |-> FALSE, errors |-> <<ErrorMessage(e)>>]

\* the failed result scrapeFromPlatform builds in its own catch
PlatformCatchResult(p, e) ==
  [jobs |-> <<>>, totalFound |-> 0, platform |-> p,
   searchQuery |-> "url", success |-> FALSE, errors |-> <<ErrorMessage(e)>>]

\* the failed result scrapeFromMultiplePlatforms builds in its catch
MultiCatchResult(p, e) ==
  [jobs |-> <<>>, totalFound |-> 0, platform |-> p,
   searchQuery |-> "N/A", success |-> FALSE, errors |-> <<ErrorMessage(e)>>]

UnknownPlatformError(p) == [isError |-> TRUE, message |-> "Adapter not available"]

\* the entry of the persistence log that stands for the combined artifact
\* (per-platform artifacts are logged by their position in the request list)
CombinedArtifact == 0

RECURSIVE FlatJobs(_, _)
FlatJobs(rs, i) == IF i > Len(rs) THEN <<>> ELSE rs[i].jobs \o FlatJobs(rs, i + 1)

\* -------------------------------------------------------------------- Init
\* the orchestrator, the adapter and the scrape calls before any request
ScraperStart ==
  /\ idx = 1
  /\ opc = "loop"
  /\ cur = None
  /\ othrown = None
  /\ results = <<>>
  /\ waits = <<>>
  /\ persisted = {}
  /\ combined = "none"
  /\ browser = None
  /\ page = None
  /\ created = {}
  /\ open = {}
  /\ closeCalled = {}
  /\ touched = {}
  /\ spc = [c \in Calls |-> "idle"]
  /\ ejobs = [c \in Calls |-> <<>>]
  /\ nExtracted = [c \in Calls |-> 0]
  /\ sres = [c \in Calls |-> None]
  /\ stageErr = [c \in Calls |-> None]
  /\ cleanups = [c \in Calls |-> 0]
  /\ tierLog = [c \in Calls |-> <<>>]
  /\ elems = [c \in Calls |-> <<>>]
  /\ loads = [c \in Calls |-> 0]
  /\ saveLog = <<>>
  /\ probes = [c \in Calls |-> 0]
  /\ contentLoaded = [c \in Calls |-> FALSE]

\* no retry call is in progress
RetryOff ==
  /\ maxAttempts = 0 /\ baseDelay = 0
  /\ rpc = "off"
  /\ attempt = 0 /\ delay = 0 /\ invocations = 0 /\ failures = 0
  /\ rwaits = <<>>
  /\ lastError = None /\ rraised = None

\* no CSV artifact is being written
CsvOff ==
  /\ cjobs = <<>>
  /\ cpc = "off"
  /\ csvContent = <<>>
  /\ parsed = <<>>

\* getStatistics, buildSearchUrl and extractJobFromElement are not being called
HelpersOff ==
  /\ statResults = <<>> /\ stats = None
  /\ filters = None /\ url = None
  /\ epc = "off" /\ lines = <<>> /\ titleEls = <<>> /\ descEls = <<>>
  /\ href = <<>> /\ listing = None
  /\ config = None /\ adapters = <<>> /\ instances = <<>>

Init ==
  /\ platforms \in SeqsUpTo(PlatformIds, MaxPlatforms)
  /\ maxJobs \in (0 - NegCfgJobs)..MaxCfgJobs
  /\ ScraperStart
  /\ RetryOff
  /\ CsvOff
  /\ HelpersOff

\* ------------------------------------------------- BaseAdapter.scrape steps
Touch(c, r) == touched' = touched \cup {<<c, r>>}

\* catch (error) { errors.push(errorMessage); return {jobs, ..., success: false, errors} }
\* followed by the finally block; `jobs` is still [] whenever a stage threw
ScrapeCatch_propagate(c, e) ==
  /\ sres' = sres
  /\ stageErr' = [stageErr EXCEPT ![c] = <<e>>]
  /\ spc' = [spc EXCEPT ![c] = "closePage"]
  /\ cleanups' = [cleanups EXCEPT ![c] = @ + 1]
  /\ ejobs' = [ejobs EXCEPT ![c] = <<>>]
  /\ tierLog' = [tierLog EXCEPT ![c] = <<>>]
  /\ elems' = [elems EXCEPT ![c] = <<>>]
  /\ UNCHANGED nExtracted
ScrapeCatch(c, e) ==
  /\ sres' = [sres EXCEPT ![c] = <<FailureResult(<<>>, e)>>]
  /\ stageErr' = [stageErr EXCEPT ![c] = <<e>>]
  /\ spc' = [spc EXCEPT ![c] = "closePage"]
  /\ cleanups' = [cleanups EXCEPT ![c] = @ + 1]
  /\ ejobs' = [ejobs EXCEPT ![c] = <<>>]
  /\ tierLog' = [tierLog EXCEPT ![c] = <<>>]
  /\ elems' = [elems EXCEPT ![c] = <<>>]
  /\ UNCHANGED nExtracted

\* a stage completed normally and control moves to the next await
Advance(c, next) ==
  /\ spc' = [spc EXCEPT ![c] = next]
  /\ UNCHANGED <<ejobs, nExtracted, sres, stageErr, cleanups, tierLog, elems>>

\* initialize: this.browser = await chromium.launch(...)
Launch_swallow(c) ==
  /\ spc[c] = "launch"
  /\ \/ /\ browser' = <<c, "browser">>
        /\ created' = created \cup {<<c, "browser">>}
        /\ open' = open \cup {<<c, "browser">>}
        /\ Advance(c, "newPage")
        /\ UNCHANGED <<page, closeCalled, touched>>
     \/ /\ Advance(c, "goto")
        /\ UNCHANGED avars
  /\ UNCHANGED ovars
  /\ UNCHANGED <<nvars, xvars, rvars, kvars, pvars>>
Launch(c) ==
  /\ spc[c] = "launch"
  /\ \/ /\ browser' = <<c, "browser">>
        /\ created' = created \cup {<<c, "browser">>}
        /\ open' = open \cup {<<c, "browser">>}
        /\ Advance(c, "newPage")
        /\ UNCHANGED <<page, closeCalled, touched>>
     \/ /\ \E e \in Throwables("launch") : ScrapeCatch(c, e)
        /\ UNCHANGED avars
  /\ UNCHANGED ovars
  /\ UNCHANGED <<nvars, xvars, rvars, kvars, pvars>>

\* initialize: this.page = await this.browser.newPage()
NewPage(c) ==
  /\ spc[c] = "newPage"
  /\ Touch(c, browser)
  /\ \/ /\ page' = <<c, "page">>
        /\ created' = created \cup {<<c, "page">>}
        /\ open' = open \cup {<<c, "page">>}
        /\ Advance(c, "setup")
     \/ /\ \E e \in Throwables("newPage") : ScrapeCatch(c, e)
        /\ UNCHANGED <<page, created, open>>
  /\ UNCHANGED <<browser, closeCalled>>
  /\ UNCHANGED ovars
  /\ UNCHANGED <<nvars, xvars, rvars, kvars, pvars>>

\* initialize: await this.page.setExtraHTTPHeaders(...); await this.page.setViewportSize(...)
Setup(c) ==
  /\ spc[c] = "setup"
  /\ Touch(c, page)
  /\ \/ Advance(c, "goto")
     \/ \E e \in Throwables("setup") : ScrapeCatch(c, e)
  /\ UNCHANGED <<browser, page, created, open, closeCalled>>
  /\ UNCHANGED ovars
  /\ UNCHANGED <<nvars, xvars, rvars, kvars, pvars>>

PageMissing == [isError |-> TRUE, message |-> "Page not initialized"]

\* navigateToJobsPage: if (!this.page) throw; await this.page.goto(url, ...)
Goto(c) ==
  /\ spc[c] = "goto"
  /\ IF page = None
       THEN ScrapeCatch(c, PageMissing) /\ UNCHANGED <<touched, loads>>
       ELSE /\ Touch(c, page)
            /\ loads' = [loads EXCEPT ![c] = @ + 1]
            /\ \/ Advance(c, "waitSel")
               \/ \E e \in Throwables("goto") : ScrapeCatch(c, e)
  /\ UNCHANGED saveLog
  /\ UNCHANGED <<browser, page, created, open, closeCalled>>
  /\ UNCHANGED ovars
  /\ UNCHANGED <<nvars, rvars, kvars, pvars>>

\* navigateToJobsPage: for (const selector of jobSelectors) { try { await
\* waitForSelector(selector); contentLoaded = true; break } catch { next } }
\* if (!contentLoaded) screenshot: where control goes after the i-th probe
AfterProbe(i, appeared) ==
  IF appeared THEN "settle"
  ELSE IF i < NumReadySelectors THEN "waitSel" ELSE "screenshot"

\* one waitForSelector probe, of the next selector of the list; a probe that
\* times out is caught and the loop goes on
WaitSelectors(c) ==
  /\ spc[c] = "waitSel"
  /\ Touch(c, page)
  /\ \E appeared \in BOOLEAN :
       /\ probes' = [probes EXCEPT ![c] = @ + 1]
       /\ contentLoaded' = [contentLoaded EXCEPT ![c] = @ \/ appeared]
       /\ Advance(c, AfterProbe(probes[c] + 1, appeared))
  /\ UNCHANGED <<browser, page, created, open, closeCalled>>
  /\ UNCHANGED ovars
  /\ UNCHANGED <<xvars, rvars, kvars, pvars>>

\* navigateToJobsPage: if (!contentLoaded) await this.page.screenshot(...);
\* a failure is rethrown by the enclosing try/catch
Screenshot(c) ==
  /\ spc[c] = "screenshot"
  /\ Touch(c, page)
  /\ \/ Advance(c, "settle")
     \/ \E e \in Throwables("screenshot") : ScrapeCatch(c, e)
  /\ UNCHANGED <<browser, page, created, open, closeCalled>>
  /\ UNCHANGED ovars
  /\ UNCHANGED <<nvars, xvars, rvars, kvars, pvars>>

\* navigateToJobsPage: await this.randomDelay(1000, 2000); the function
\* returns and its locals go out of scope
Settle(c) ==
  /\ spc[c] = "settle"
  /\ Advance(c, "modern")
  /\ probes' = [probes EXCEPT ![c] = 0]
  /\ contentLoaded' = [contentLoaded EXCEPT ![c] = FALSE]
  /\ UNCHANGED avars
  /\ UNCHANGED ovars
  /\ UNCHANGED <<xvars, rvars, kvars, pvars>>

\* ---------------------------------------------- FreelancerAdapter.extractJobs
\* the generic tier also sees elements its text filter rejects ("skip")
GenericContents == SeqsUpTo(ElementKinds \cup {"skip"}, MaxElems)

Candidates(content) == Cardinality({i \in 1..Len(content) : content[i] # "skip"})

\* one tier has been queried: whether it located any candidate element and
\* whether extraction yielded any listing
TierDone(c, tier, content, next) ==
  LET jobs == ExtractAll(content) IN
  /\ ejobs' = [ejobs EXCEPT ![c] = jobs]
  /\ tierLog' = [tierLog EXCEPT ![c] =
        Append(@, [tier |-> tier, located |-> Candidates(content) > 0, yielded |-> Len(jobs) > 0])]
  /\ spc' = [spc EXCEPT ![c] = IF next # "finish" /\ TryNextTier(jobs) THEN next ELSE "finish"]
  /\ elems' = [elems EXCEPT ![c] = content]
  /\ UNCHANGED <<nExtracted, sres, stageErr, cleanups>>

\* extractJobs: if (!this.page) throw; jobs = await this.extractJobsWithModernSelectors()
Modern(c) ==
  /\ spc[c] = "modern"
  /\ IF page = None
       THEN ScrapeCatch(c, PageMissing) /\ UNCHANGED touched
       ELSE /\ Touch(c, page)
            /\ \/ \E content \in TierContents : TierDone(c, "modern", content, "legacy")
               \/ \E e \in Throwables("query") : ScrapeCatch(c, e)
  /\ UNCHANGED <<browser, page, created, open, closeCalled>>
  /\ UNCHANGED ovars
  /\ UNCHANGED <<nvars, xvars, rvars, kvars, pvars>>

\* extractJobs: if (jobs.length === 0) jobs = await this.extractJobsWithLegacySelectors()
Legacy(c) ==
  /\ spc[c] = "legacy"
  /\ Touch(c, page)
  /\ \/ \E content \in TierContents : TierDone(c, "legacy", content, "generic")
     \/ \E e \in Throwables("query") : ScrapeCatch(c, e)
  /\ UNCHANGED <<browser, page, created, open, closeCalled>>
  /\ UNCHANGED ovars
  /\ UNCHANGED <<nvars, xvars, rvars, kvars, pvars>>

\* extractJobs: if (jobs.length === 0) jobs = await this.extractJobsGeneric()
Generic(c) ==
  /\ spc[c] = "generic"
  /\ Touch(c, page)
  /\ \/ \E content \in GenericContents : TierDone(c, "generic", content, "finish")
     \/ \E e \in Throwables("query") : ScrapeCatch(c, e)
  /\ UNCHANGED <<browser, page, created, open, closeCalled>>
  /\ UNCHANGED ovars
  /\ UNCHANGED <<nvars, xvars, rvars, kvars, pvars>>

\* extractJobs: return jobs.slice(0, this.config.maxJobs); then scrape stamps
\* the platform, builds the success result and enters the finally block
Finish(c) ==
  /\ spc[c] = "finish"
  /\ LET jobs == Stamp(Slice(ejobs[c], maxJobs)) IN
       /\ nExtracted' = [nExtracted EXCEPT ![c] = Len(ejobs[c])]
       /\ ejobs' = [ejobs EXCEPT ![c] = jobs]
       /\ sres' = [sres EXCEPT ![c] = <<SuccessResult(jobs)>>]
  /\ tierLog' = [tierLog EXCEPT ![c] = <<>>]
  /\ spc' = [spc EXCEPT ![c] = "closePage"]
  /\ cleanups' = [cleanups EXCEPT ![c] = @ + 1]
  /\ UNCHANGED <<stageErr, elems>>
  /\ UNCHANGED avars
  /\ UNCHANGED ovars
  /\ UNCHANGED <<nvars, xvars, rvars, kvars, pvars>>

\* ------------------------------------------------------ BaseAdapter.cleanup
\* how scrape completes once the finally block is over: with the value the
\* try or catch block returned, or with the exception that escaped them
ReturnPc(c) == IF sres[c] # None THEN "returned" ELSE "raised"

\* catch (error) { console.error('Error during cleanup:', error); }
CleanupCatch_rethrow(c) == "raised"
CleanupCatch(c) == ReturnPc(c)

\* if (this.page) await this.page.close();  (the locals of extractJobs, its
\* element handles and its count of extracted jobs, are out of scope by now)
ClosePage(c) ==
  /\ spc[c] = "closePage"
  /\ IF page = None
       THEN /\ spc' = [spc EXCEPT ![c] = "closeBrowser"]
            /\ UNCHANGED <<open, closeCalled, touched>>
       ELSE /\ Touch(c, page)
            /\ closeCalled' = closeCalled \cup {page}
            /\ \/ /\ open' = open \ {page}
                  /\ spc' = [spc EXCEPT ![c] = "closeBrowser"]
               \/ /\ open' = open
                  /\ spc' = [spc EXCEPT ![c] = CleanupCatch(c)]
  /\ UNCHANGED <<browser, page, created>>
  /\ elems' = [elems EXCEPT ![c] = <<>>]
  /\ nExtracted' = [nExtracted EXCEPT ![c] = 0]
  /\ UNCHANGED <<ejobs, sres, stageErr, cleanups, tierLog>>
  /\ UNCHANGED ovars
  /\ UNCHANGED <<nvars, xvars, rvars, kvars, pvars>>

\* if (this.browser) await this.browser.close();  closing a browser closes its pages
CloseBrowser(c) ==
  /\ spc[c] = "closeBrowser"
  /\ IF browser = None
       THEN /\ spc' = [spc EXCEPT ![c] = ReturnPc(c)]
            /\ UNCHANGED <<open, closeCalled, touched>>
       ELSE /\ Touch(c, browser)
            /\ closeCalled' = closeCalled \cup {browser}
            /\ \/ /\ open' = open \ {browser, <<browser[1], "page">>}
                  /\ spc' = [spc EXCEPT ![c] = ReturnPc(c)]
               \/ /\ open' = open
                  /\ spc' = [spc EXCEPT ![c] = CleanupCatch(c)]
  /\ UNCHANGED <<browser, page, created>>
  /\ UNCHANGED <<ejobs, nExtracted, sres, stageErr, cleanups, tierLog, elems>>
  /\ UNCHANGED ovars
  /\ UNCHANGED <<nvars, xvars, rvars, kvars, pvars>>

\* ------------------------------------------------------ ScraperOrchestrator
\* scrapeFromPlatform: const result = await adapter.scrape(filters)
\* (the call made for position idx of the request list starts at initialize)
OStart_noawait ==
  /\ opc = "loop"
  /\ idx <= Len(platforms)
  /\ platforms[idx] \in Registered
  /\ spc' = [spc EXCEPT ![idx] = "launch"]
  /\ idx' = idx + 1
  /\ UNCHANGED <<platforms, maxJobs, opc, cur, othrown, results, waits, persisted, combined>>
  /\ UNCHANGED <<ejobs, nExtracted, sres, stageErr, cleanups, tierLog, elems>>
  /\ UNCHANGED avars
  /\ UNCHANGED <<nvars, xvars, rvars, kvars, pvars>>
OStart ==
  /\ opc = "loop"
  /\ idx <= Len(platforms)
  /\ platforms[idx] \in Registered
  /\ spc' = [spc EXCEPT ![idx] = "launch"]
  /\ opc' = "await"
  /\ UNCHANGED <<platforms, maxJobs, idx, cur, othrown, results, waits, persisted, combined>>
  /\ UNCHANGED <<ejobs, nExtracted, sres, stageErr, cleanups, tierLog, elems>>
  /\ UNCHANGED avars
  /\ UNCHANGED <<nvars, xvars, rvars, kvars, pvars>>

\* scrapeFromPlatform: if (!adapter) throw new Error(...), which lands in the
\* catch block of scrapeFromMultiplePlatforms
OUnknown_failedResult ==
  /\ opc = "loop"
  /\ idx <= Len(platforms)
  /\ platforms[idx] \notin Registered
  /\ cur' = <<PlatformCatchResult(platforms[idx], UnknownPlatformError(platforms[idx]))>>
  /\ opc' = "push"
  /\ UNCHANGED <<platforms, maxJobs, idx, othrown, results, waits, persisted, combined>>
  /\ UNCHANGED <<avars, cvars>>
  /\ UNCHANGED <<nvars, xvars, rvars, kvars, pvars>>
OUnknown ==
  /\ opc = "loop"
  /\ idx <= Len(platforms)
  /\ platforms[idx] \notin Registered
  /\ othrown' = <<UnknownPlatformError(platforms[idx])>>
  /\ opc' = "catch"
  /\ UNCHANGED <<platforms, maxJobs, idx, cur, results, waits, persisted, combined>>
  /\ UNCHANGED <<avars, cvars>>
  /\ UNCHANGED <<nvars, xvars, rvars, kvars, pvars>>

\* what escaped scrape when it raised instead of returning
Escaped(c) == IF stageErr[c] # None THEN stageErr[c][1]
              ELSE [isError |-> TRUE, message |-> "cleanup"]

\* if (result.jobs.length > 0) await this.saveResults(result)
ShouldSave_onSuccess(result) == result.success
ShouldSave(result) == Len(result.jobs) > 0

\* scrapeFromPlatform: the await completes; try { result = ...; if
\* (result.jobs.length > 0) saveResults } catch { failed result }
OAwait_alwaysSave ==
  /\ opc = "await"
  /\ spc[idx] \in {"returned", "raised"}
  /\ IF spc[idx] = "returned"
       THEN /\ cur' = sres[idx]
            /\ opc' = "save"
       ELSE /\ cur' = <<PlatformCatchResult(platforms[idx], Escaped(idx))>>
            /\ opc' = "push"
  /\ UNCHANGED <<platforms, maxJobs, idx, othrown, results, waits, persisted, combined>>
  /\ UNCHANGED <<avars, cvars>>
  /\ UNCHANGED <<nvars, xvars, rvars, kvars, pvars>>
OAwait ==
  /\ opc = "await"
  /\ spc[idx] \in {"returned", "raised"}
  /\ IF spc[idx] = "returned"
       THEN /\ cur' = sres[idx]
            /\ opc' = IF ShouldSave(sres[idx][1]) THEN "save" ELSE "push"
       ELSE /\ cur' = <<PlatformCatchResult(platforms[idx], Escaped(idx))>>
            /\ opc' = "push"
  /\ UNCHANGED <<platforms, maxJobs, idx, othrown, results, waits, persisted, combined>>
  /\ UNCHANGED <<avars, cvars>>
  /\ UNCHANGED <<nvars, xvars, rvars, kvars, pvars>>

\* saveResults: writes the per-platform artifact; its own try/catch swallows
\* any persistence error
OSave_propagate ==
  /\ opc = "save"
  /\ \E ok \in BOOLEAN :
       /\ persisted' = IF ok THEN persisted \cup {idx} ELSE persisted
       /\ cur' = IF ok THEN cur
                 ELSE <<PlatformCatchResult(platforms[idx], [isError |-> TRUE, message |-> "save"])>>
  /\ saveLog' = Append(saveLog, idx)
  /\ UNCHANGED loads
  /\ opc' = "push"
  /\ UNCHANGED <<platforms, maxJobs, idx, othrown, results, waits, combined>>
  /\ UNCHANGED <<avars, cvars>>
  /\ UNCHANGED <<nvars, rvars, kvars, pvars>>
OSave ==
  /\ opc = "save"
  /\ \E ok \in BOOLEAN : persisted' = IF ok THEN persisted \cup {idx} ELSE persisted
  /\ saveLog' = Append(saveLog, idx)
  /\ UNCHANGED loads
  /\ opc' = "push"
  /\ UNCHANGED <<platforms, maxJobs, idx, cur, othrown, results, waits, combined>>
  /\ UNCHANGED <<avars, cvars>>
  /\ UNCHANGED <<nvars, rvars, kvars, pvars>>

\* scrapeFromMultiplePlatforms: results.push(result); if (platforms.indexOf(
\* platform) < platforms.length - 1) await this.delay(...)
OPush_dropListings ==
  /\ opc = "push"
  /\ results' = Append(results, [cur[1] EXCEPT !.jobs = <<>>])
  /\ cur' = None
  /\ IF DelayNeeded(platforms, idx)
       THEN opc' = "delay" /\ idx' = idx
       ELSE opc' = "loop" /\ idx' = idx + 1
  /\ UNCHANGED <<platforms, maxJobs, othrown, waits, persisted, combined>>
  /\ UNCHANGED <<avars, cvars>>
  /\ UNCHANGED <<nvars, xvars, rvars, kvars, pvars>>
OPush ==
  /\ opc = "push"
  /\ results' = Append(results, cur[1])
  /\ cur' = None
  /\ IF DelayNeeded(platforms, idx)
       THEN opc' = "delay" /\ idx' = idx
       ELSE opc' = "loop" /\ idx' = idx + 1
  /\ UNCHANGED <<platforms, maxJobs, othrown, waits, persisted, combined>>
  /\ UNCHANGED <<avars, cvars>>
  /\ UNCHANGED <<nvars, xvars, rvars, kvars, pvars>>

\* await this.delay(this.config.delayBetweenRequests)
ODelay_pending ==
  /\ opc = "delay"
  /\ UNCHANGED vars
ODelay ==
  /\ opc = "delay"
  /\ waits' = Append(waits, idx)
  /\ idx' = idx + 1
  /\ opc' = "loop"
  /\ UNCHANGED <<platforms, maxJobs, cur, othrown, results, persisted, combined>>
  /\ UNCHANGED <<avars, cvars>>
  /\ UNCHANGED <<nvars, xvars, rvars, kvars, pvars>>

\* scrapeFromMultiplePlatforms: catch (error) { results.push({... success: false ...}) }
OCatch_rethrow ==
  /\ opc = "catch"
  /\ opc' = "raised"
  /\ UNCHANGED <<platforms, maxJobs, idx, cur, othrown, results, waits, persisted, combined>>
  /\ UNCHANGED <<avars, cvars>>
  /\ UNCHANGED <<nvars, xvars, rvars, kvars, pvars>>
OCatch ==
  /\ opc = "catch"
  /\ results' = Append(results, MultiCatchResult(platforms[idx], othrown[1]))
  /\ othrown' = None
  /\ idx' = idx + 1
  /\ opc' = "loop"
  /\ UNCHANGED <<platforms, maxJobs, cur, waits, persisted, combined>>
  /\ UNCHANGED <<avars, cvars>>
  /\ UNCHANGED <<nvars, xvars, rvars, kvars, pvars>>

\* after the loop: if (combinedJobs.length > 0) await saveCombinedResults(...),
\* which swallows persistence errors; return results
OCombine ==
  /\ opc = "loop"
  /\ idx > Len(platforms)
  /\ IF Len(FlatJobs(results, 1)) > 0
       THEN /\ \E ok \in BOOLEAN : combined' = IF ok THEN "saved" ELSE "failed"
            /\ saveLog' = Append(saveLog, CombinedArtifact)
       ELSE /\ combined' = "none"
            /\ saveLog' = saveLog
  /\ UNCHANGED loads
  /\ opc' = "done"
  /\ UNCHANGED <<platforms, maxJobs, idx, cur, othrown, results, waits, persisted>>
  /\ UNCHANGED <<avars, cvars>>
  /\ UNCHANGED <<nvars, rvars, kvars, pvars>>

\* --------------------------------------------------------------------- Spec
ScrapeStep(c) ==
  \/ Launch(c) \/ NewPage(c) \/ Setup(c)
  \/ Goto(c) \/ WaitSelectors(c) \/ Screenshot(c) \/ Settle(c)
  \/ Modern(c) \/ Legacy(c) \/ Generic(c) \/ Finish(c)
  \/ ClosePage(c) \/ CloseBrowser(c)

Next ==
  \/ OStart \/ OUnknown \/ OAwait \/ OSave \/ OPush \/ ODelay \/ OCatch \/ OCombine
  \/ \E c \in Calls : ScrapeStep(c)

Spec == Init /\ [][Next]_vars

\* every awaited call (collaborator call, timer, persistence) completes, so
\* the single-threaded run always takes its next step; the listing cap plays
\* no part in the control flow and is fixed

InitLive == Init /\ maxJobs = MaxCfgJobs

SpecLive == InitLive /\ [][Next]_vars /\ WF_vars(Next)

\* -------------------------------------------------------- BaseAdapter.retry
\* lastError = error instanceof Error ? error : new Error('Unknown error')
AsError(e) ==
  [message |-> IF e.isError THEN "operation failed" ELSE "Unknown error",
   attempt |-> e.attempt]

\* if (attempt === maxAttempts) throw lastError
IsFinalAttempt_never(a, m) == FALSE
IsFinalAttempt(a, m) == a = m

\* delay *= 2
NextDelay_constant(d) == d
NextDelay(d) == d * 2

\* retry(operation, maxAttempts, delay): let lastError; attempt = 1
RetryCall ==
  /\ rpc = "off"
  /\ \E m \in (0 - NegRetryAttempts)..MaxRetryAttempts, d \in 1..MaxBaseDelay :
       /\ maxAttempts' = m
       /\ baseDelay' = d
       /\ delay' = d
  /\ attempt' = 1
  /\ rpc' = "loop"
  /\ UNCHANGED <<invocations, failures, rwaits, lastError, rraised>>
  /\ UNCHANGED <<ovars, avars, cvars, nvars, xvars, kvars, pvars>>

\* attempt <= maxAttempts: try { return await operation() } catch (error) {
\* lastError = ...; if (attempt === maxAttempts) throw lastError; ... }
RetryInvoke_doWhile ==
  /\ rpc = "loop"
  /\ attempt <= maxAttempts \/ attempt = 1
  /\ invocations' = invocations + 1
  /\ \/ /\ rpc' = "returned"
        /\ UNCHANGED <<failures, lastError, rraised>>
     \/ \E e \in {[isError |-> b, attempt |-> attempt] : b \in BOOLEAN} :
          /\ failures' = failures + 1
          /\ lastError' = <<AsError(e)>>
          /\ IF IsFinalAttempt(attempt, maxAttempts)
               THEN rpc' = "raised" /\ rraised' = <<AsError(e)>>
               ELSE rpc' = "wait" /\ rraised' = rraised
  /\ UNCHANGED <<maxAttempts, baseDelay, attempt, delay, rwaits>>
  /\ UNCHANGED <<ovars, avars, cvars, nvars, xvars, kvars, pvars>>
RetryInvoke ==
  /\ rpc = "loop"
  /\ attempt <= maxAttempts
  /\ invocations' = invocations + 1
  /\ \/ /\ rpc' = "returned"
        /\ UNCHANGED <<failures, lastError, rraised>>
     \/ \E e \in {[isError |-> b, attempt |-> attempt] : b \in BOOLEAN} :
          /\ failures' = failures + 1
          /\ lastError' = <<AsError(e)>>
          /\ IF IsFinalAttempt(attempt, maxAttempts)
               THEN rpc' = "raised" /\ rraised' = <<AsError(e)>>
               ELSE rpc' = "wait" /\ rraised' = rraised
  /\ UNCHANGED <<maxAttempts, baseDelay, attempt, delay, rwaits>>
  /\ UNCHANGED <<ovars, avars, cvars, nvars, xvars, kvars, pvars>>

\* await new Promise(resolve => setTimeout(resolve, delay)); delay *= 2; attempt++
RetryWait ==
  /\ rpc = "wait"
  /\ rwaits' = Append(rwaits, delay)
  /\ delay' = NextDelay(delay)
  /\ attempt' = attempt + 1
  /\ rpc' = "loop"
  /\ UNCHANGED <<maxAttempts, baseDelay, invocations, failures, lastError, rraised>>
  /\ UNCHANGED <<ovars, avars, cvars, nvars, xvars, kvars, pvars>>

\* the loop ended without returning or throwing: throw lastError!
\* (lastError is still unassigned when the loop body never ran)
RetryExhausted ==
  /\ rpc = "loop"
  /\ attempt > maxAttempts
  /\ rraised' = lastError
  /\ rpc' = "raised"
  /\ UNCHANGED <<maxAttempts, baseDelay, attempt, delay, invocations, failures, rwaits, lastError>>
  /\ UNCHANGED <<ovars, avars, cvars, nvars, xvars, kvars, pvars>>

\* a retry call on its own: no scraping run and no CSV artifact in progress
InitRetry ==
  /\ platforms = <<>>
  /\ maxJobs = 0
  /\ ScraperStart
  /\ RetryOff
  /\ CsvOff
  /\ HelpersOff

NextRetry == RetryCall \/ RetryInvoke \/ RetryWait \/ RetryExhausted

SpecRetry == InitRetry /\ [][NextRetry]_vars

\* ---------------------------------------------------------- utils.ts (CSV)
\* a string is a sequence of symbols; the symbols the CSV code distinguishes
Comma == ","
Quote == "\""
Newline == "\n"
Semi == ";"
Space == " "
Letter == "a"

\* const headers = ["title", "description", ...]
Headers ==
  <<"title", "description", "budget", "hourlyRate", "skills", "postedTime",
    "clientInfo", "jobUrl", "jobType", "duration", "experienceLevel", "platform">>

\* String.prototype.includes for one symbol
Includes(str, ch) == \E i \in 1..Len(str) : str[i] = ch

\* String.prototype.replace(/ch/g, by)
ReplaceAll(str, ch, by) == [i \in 1..Len(str) |-> IF str[i] = ch THEN by ELSE str[i]]

\* Array.prototype.join(sep)
RECURSIVE Join(_, _)
Join(parts, sep) ==
  IF Len(parts) = 0 THEN <<>>
  ELSE IF Len(parts) = 1 THEN parts[1]
  ELSE parts[1] \o sep \o Join(Tail(parts), sep)

\* stringValue.replace(/"/g, '""')
RECURSIVE DoubleQuotes(_)
DoubleQuotes(str) ==
  IF Len(str) = 0 THEN <<>>
  ELSE (IF str[1] = Quote THEN <<Quote, Quote>> ELSE <<str[1]>>) \o DoubleQuotes(Tail(str))

\* description: job.description.replace(/\n/g, " ").replace(/,/g, ";")
CsvDescription_asIs(description) == description
CsvDescription(description) == ReplaceAll(ReplaceAll(description, Newline, Space), Comma, Semi)

\* jobDataToCsvRecord: description normalised, skills: job.skills.join("; ")
jobDataToCsvRecord(job) ==
  [job EXCEPT !.description = CsvDescription(@), !.skills = Join(@, <<Semi, Space>>)]

\* if (stringValue.includes(",") || stringValue.includes('"') ||
\* stringValue.includes("\n")) return `"${stringValue.replace(/"/g, '""')}"`;
\* return stringValue
CsvField_commaOrQuote(stringValue) ==
  IF Includes(stringValue, Comma) \/ Includes(stringValue, Quote)
    THEN <<Quote>> \o DoubleQuotes(stringValue) \o <<Quote>>
    ELSE stringValue
CsvField(stringValue) ==
  IF Includes(stringValue, Comma) \/ Includes(stringValue, Quote) \/ Includes(stringValue, Newline)
    THEN <<Quote>> \o DoubleQuotes(stringValue) \o <<Quote>>
    ELSE stringValue

\* headers.map(header => ...field of record[header]...).join(",")
CsvRow(job) ==
  LET record == jobDataToCsvRecord(job)
  IN Join([k \in 1..Len(Headers) |-> CsvField(record[Headers[k]])], <<Comma>>)

\* csvRows = [headers.join(",")]; jobs.forEach(job => csvRows.push(row));
\* return csvRows.join("\n")
createCsvContent(jobs) ==
  LET csvRows == <<Join([k \in 1..Len(Headers) |-> <<Headers[k]>>], <<Comma>>)>>
                   \o [i \in 1..Len(jobs) |-> CsvRow(jobs[i])]
  IN Join(csvRows, <<Newline>>)

\* reading a CSV text back with the quoting rule of the artifact format: a
\* field that starts with a double quote runs to its closing quote, a doubled
\* quote inside it stands for one quote; outside quotes a comma ends the
\* field and a newline ends the row
RECURSIVE ScanField(_, _, _, _)
ScanField(text, i, inQuotes, field) ==
  IF i > Len(text) THEN [field |-> field, next |-> i]
  ELSE IF inQuotes
    THEN IF text[i] = Quote
           THEN IF i < Len(text) /\ text[i + 1] = Quote
                  THEN ScanField(text, i + 2, TRUE, Append(field, Quote))
                  ELSE ScanField(text, i + 1, FALSE, field)
           ELSE ScanField(text, i + 1, TRUE, Append(field, text[i]))
    ELSE IF text[i] = Quote /\ field = <<>>
           THEN ScanField(text, i + 1, TRUE, field)
         ELSE IF text[i] = Comma \/ text[i] = Newline
           THEN [field |-> field, next |-> i]
         ELSE ScanField(text, i + 1, FALSE, Append(field, text[i]))

\* the fields one after the other: the one that starts at i, then the symbol
\* that ended it
RECURSIVE ParseFrom(_, _, _, _)
ParseFrom(text, i, row, rows) ==
  LET scanned == ScanField(text, i, FALSE, <<>>)
  IN IF scanned.next > Len(text) THEN Append(rows, Append(row, scanned.field))
     ELSE IF text[scanned.next] = Comma
       THEN ParseFrom(text, scanned.next + 1, Append(row, scanned.field), rows)
       ELSE ParseFrom(text, scanned.next + 1, <<>>, Append(rows, Append(row, scanned.field)))

ParseCsv(text) == ParseFrom(text, 1, <<>>, <<>>)

\* the JobData values handed to createCsvContent: any text in title and
\* description, skills that may hold a comma, a budget with a thousands
\* separator, an empty hourlyRate and duration
Texts(n) == SeqsUpTo({Letter, Comma, Quote, Newline}, n)

JobData(title, description, skills) ==
  [title |-> title, description |-> description,
   budget |-> <<Letter, Comma, Letter>>, hourlyRate |-> <<>>,
   skills |-> skills, postedTime |-> <<Letter>>, clientInfo |-> <<Letter>>,
   jobUrl |-> <<Letter>>, jobType |-> <<Letter>>, duration |-> <<>>,
   experienceLevel |-> <<Letter>>, platform |-> <<Letter>>]

CsvJobs ==
  {JobData(t, d, k) : t \in Texts(MaxTitleLen), d \in Texts(MaxStrLen),
                      k \in SeqsUpTo({<<Letter>>, <<Letter, Comma>>}, MaxSkills)}

\* saveJobsToCSV: const csvContent = createCsvContent(jobs)
CsvWrite ==
  /\ cpc = "off"
  /\ \E job \in CsvJobs, more \in BOOLEAN :
       \* more: a second listing follows, with every special symbol in it
       LET OtherJob == JobData(<<Newline, Letter>>, <<Letter, Comma, Quote, Newline>>,
                               <<<<Letter>>, <<Letter>>>>)
           jobs == IF more THEN <<job, OtherJob>> ELSE <<job>> IN
       /\ cjobs' = jobs
       /\ csvContent' = createCsvContent(jobs)
  /\ cpc' = "written"
  /\ UNCHANGED parsed
  /\ UNCHANGED <<ovars, avars, cvars, nvars, xvars, rvars, pvars>>

\* a consumer reads the artifact back
CsvRead ==
  /\ cpc = "written"
  /\ parsed' = ParseCsv(csvContent)
  /\ cpc' = "read"
  /\ UNCHANGED <<cjobs, csvContent>>
  /\ UNCHANGED <<ovars, avars, cvars, nvars, xvars, rvars, pvars>>

\* a CSV artifact on its own: no scraping run and no retry call in progress
InitCsv ==
  /\ platforms = <<>>
  /\ maxJobs = 0
  /\ ScraperStart
  /\ RetryOff
  /\ CsvOff
  /\ HelpersOff

NextCsv == CsvWrite \/ CsvRead

SpecCsv == InitCsv /\ [][NextCsv]_vars

\* ------------------------------------------- FreelancerAdapter.buildSearchUrl
\* an optional field of SearchFilters is <<>> when undefined and <<value>>
\* otherwise; a string value is a sequence of symbols, "" being <<>>
Given(field) == field # <<>>

\* JavaScript truthiness of an optional string field and of an optional
\* number field
Truthy(field) == Given(field) /\ field[1] # <<>>
TruthyNumber(field) == Given(field) /\ field[1] # 0

supportedCategories == {"software-development", "websites"}

\* if (!filters.keyword && filters.tags && filters.tags.length > 0)
UseTags_withKeyword(f) == Given(f.tags) /\ Len(f.tags[1]) > 0
UseTags(f) == ~Truthy(f.keyword) /\ Given(f.tags) /\ Len(f.tags[1]) > 0

\* case "newest": "time"; case "budget": "price"; default: nothing
SortToken(sortBy) ==
  IF sortBy = "newest" THEN <<"time">>
  ELSE IF sortBy = "budget" THEN <<"price">>
  ELSE <<>>

\* the URL as its path segments and its query parameters in append order;
\* queryString ? `${url}?${queryString}` : url
buildSearchUrl(f) ==
  LET path == IF Given(f.category) /\ f.category[1] \in supportedCategories
                THEN <<"jobs", f.category[1]>> ELSE <<"jobs">>
      keywordParam == IF Truthy(f.keyword) THEN << <<"keyword", f.keyword[1]>> >> ELSE <<>>
      tagsParam == IF UseTags(f)
                     THEN << <<"keyword", Join(f.tags[1], <<Space>>)>> >> ELSE <<>>
      typeParam == IF Given(f.jobType) /\ f.jobType[1] \in {"fixed", "hourly"}
                     THEN << <<"type", f.jobType[1]>> >> ELSE <<>>
      minParam == IF TruthyNumber(f.minBudget) THEN << <<"min_price", f.minBudget[1]>> >> ELSE <<>>
      maxParam == IF TruthyNumber(f.maxBudget) THEN << <<"max_price", f.maxBudget[1]>> >> ELSE <<>>
      sortParam == IF Given(f.sortBy) /\ SortToken(f.sortBy[1]) # <<>>
                     THEN << <<"sort", SortToken(f.sortBy[1])[1]>> >> ELSE <<>>
  IN [path |-> path,
      params |-> keywordParam \o tagsParam \o typeParam \o minParam \o maxParam \o sortParam]

\* an optional field over a set of values
Optional(S) == {<<>>} \cup {<<v>> : v \in S}

TagLists == Optional(SeqsUpTo({<<"t">>, <<"u">>}, MaxTags))

SearchFilters ==
  [keyword : Optional({<<>>, <<Letter>>}),
   category : Optional({"software-development", "cooking"}),
   tags : TagLists,
   jobType : Optional({"all", "fixed", "hourly"}),
   minBudget : Optional({0, 5}),
   maxBudget : Optional({7}),
   sortBy : Optional({"relevance", "newest", "budget", "proposals"})]

\* const url = this.buildSearchUrl(filters)
BuildUrlCall ==
  /\ filters = None
  /\ \E f \in SearchFilters :
       /\ filters' = <<f>>
       /\ url' = <<buildSearchUrl(f)>>
  /\ UNCHANGED <<ovars, avars, cvars, nvars, xvars, rvars, kvars, svars, evars, config, adapters, instances>>

\* buildSearchUrl on its own
InitUrl ==
  /\ platforms = <<>>
  /\ maxJobs = 0
  /\ ScraperStart
  /\ RetryOff
  /\ CsvOff
  /\ HelpersOff

NextUrl == BuildUrlCall

SpecUrl == InitUrl /\ [][NextUrl]_vars

\* ------------------------------------------ ScraperOrchestrator.getStatistics
\* results.reduce((sum, result) => sum + result.jobs.length, 0)
RECURSIVE TotalJobs(_)
TotalJobs(rs) == IF Len(rs) = 0 THEN 0 ELSE Len(rs[1].jobs) + TotalJobs(Tail(rs))

\* results.filter(result => result.success)
IsSuccessful_hasJobs(result) == Len(result.jobs) > 0
IsSuccessful(result) == result.success

\* the concatenation of a list of lists
RECURSIVE Concat(_)
Concat(qs) == IF Len(qs) = 0 THEN <<>> ELSE qs[1] \o Concat(Tail(qs))

\* the skills in the order the nested forEach loops visit them
SkillStream(rs) ==
  Concat([i \in 1..Len(rs) |->
            Concat([j \in 1..Len(rs[i].jobs) |-> rs[i].jobs[j].skills])])

\* skillFrequency[skill] = (skillFrequency[skill] || 0) + 1, on an object whose
\* (non-numeric) string keys are kept in insertion order
Tally(table, skill) ==
  IF \E i \in 1..Len(table) : table[i].skill = skill
    THEN [i \in 1..Len(table) |->
            IF table[i].skill = skill THEN [table[i] EXCEPT !.count = @ + 1] ELSE table[i]]
    ELSE Append(table, [skill |-> skill, count |-> 1])

\* job.skills.forEach(skill => ...): the first skill opens the table; the
\* table is evaluated at every step
RECURSIVE TallySkills(_, _)
TallySkills(table, skills) ==
  IF Len(skills) = 0 THEN table
  ELSE IF Len(table) = 0
    THEN TallySkills(<<[skill |-> skills[1], count |-> 1]>>, Tail(skills))
    ELSE TallySkills(Tally(table, skills[1]), Tail(skills))

\* results.forEach(result => result.jobs.forEach(job => ...)), on the skill
\* lists of the listings in the order the loops visit them
RECURSIVE TallyAll(_, _)
TallyAll(table, skillLists) ==
  IF Len(skillLists) = 0 THEN table
  ELSE TallyAll(TallySkills(table, skillLists[1]), Tail(skillLists))

\* .sort(([, a], [, b]) => b - a): a stable sort by descending count; where
\* an entry is inserted among those already sorted
InsertAt_beforeTies(sorted, entry) ==
  Cardinality({i \in 1..Len(sorted) : sorted[i].count > entry.count}) + 1
InsertAt(sorted, entry) ==
  Cardinality({i \in 1..Len(sorted) : sorted[i].count >= entry.count}) + 1

RECURSIVE SortByCount(_, _)
SortByCount(sorted, rest) ==
  IF Len(rest) = 0 THEN sorted
  ELSE LET k == InsertAt(sorted, rest[1])
       IN SortByCount(SubSeq(sorted, 1, k - 1) \o <<rest[1]>> \o SubSeq(sorted, k, Len(sorted)),
                      Tail(rest))

getStatistics(rs) ==
  LET successfulPlatforms == Cardinality({i \in 1..Len(rs) : IsSuccessful(rs[i])})
  IN [totalJobs |-> TotalJobs(rs),
      totalPlatforms |-> Len(rs),
      successfulPlatforms |-> successfulPlatforms,
      failedPlatforms |-> Len(rs) - successfulPlatforms,
      platformStats |-> [i \in 1..Len(rs) |->
                           [platform |-> rs[i].platform, jobs |-> Len(rs[i].jobs),
                            success |-> rs[i].success,
                            \* result.errors?.length || 0
                            errors |-> IF Given(rs[i].errors) THEN Len(rs[i].errors[1])
                                       ELSE 0]],
      \* Object.entries(skillFrequency).sort(...).slice(0, 10).map(...)
      topSkills |->
        LET skillLists == Concat([i \in 1..Len(rs) |->
                                    [j \in 1..Len(rs[i].jobs) |-> rs[i].jobs[j].skills]])
        IN Slice(SortByCount(<<>>, TallyAll(<<>>, skillLists)), TopN)]

\* skill names extractSkillsFromText can produce
SkillVocab ==
  <<"JavaScript", "TypeScript", "Python", "Java", "PHP", "Ruby", "Go", "Rust",
    "Swift", "Kotlin", "Scala", "React">>

\* the results a run hands to getStatistics. A listing has no skill, one of
\* each name, or the last two names; a result is a successful scrape (no
\* errors field), a failed scrape, or the failed result of an unregistered
\* platform.
StatInputs ==
  LET StatSkillLists ==
        {<<>>, SkillVocab, <<SkillVocab[Len(SkillVocab)], SkillVocab[Len(SkillVocab) - 1]>>}
      StatJobs == {[skills |-> k, platform |-> "freelancer"] : k \in StatSkillLists}
      StatOutcomes ==
        {[platform |-> "freelancer", success |-> TRUE, errors |-> <<>>],
         [platform |-> "freelancer", success |-> FALSE, errors |-> << <<"goto">> >>],
         [platform |-> "upwork", success |-> FALSE,
          errors |-> << <<"Adapter not available">> >>]}
  IN SeqsUpTo({[jobs |-> jobs, totalFound |-> Len(jobs), platform |-> o.platform,
                success |-> o.success, errors |-> o.errors] :
                 o \in StatOutcomes, jobs \in SeqsUpTo(StatJobs, MaxStatJobs)},
              MaxStatResults)

\* const stats = orchestrator.getStatistics(results)
GetStatisticsCall ==
  /\ stats = None
  /\ stats' = <<getStatistics(statResults)>>
  /\ UNCHANGED statResults
  /\ UNCHANGED <<ovars, avars, cvars, nvars, xvars, rvars, kvars, uvars, evars, config, adapters, instances>>

\* getStatistics on its own, about to be called on some results
InitStats ==
  /\ platforms = <<>>
  /\ maxJobs = 0
  /\ ScraperStart
  /\ RetryOff
  /\ CsvOff
  /\ filters = None /\ url = None
  /\ epc = "off" /\ lines = <<>> /\ titleEls = <<>> /\ descEls = <<>>
  /\ href = <<>> /\ listing = None
  /\ config = None /\ adapters = <<>> /\ instances = <<>>
  /\ statResults \in StatInputs
  /\ stats = None

NextStats == GetStatisticsCall

SpecStats == InitStats /\ [][NextStats]_vars

\* ------------------------------------ FreelancerAdapter.extractJobFromElement
\* A text is a sequence of runs: a run is a word or phrase w of n characters
\* (the filler word "x" stands for n characters that no pattern matches, the
\* word " " for n whitespace characters).
T(w, n) == <<[w |-> w, n |-> n]>>

RECURSIVE TextLen(_)
TextLen(t) == IF Len(t) = 0 THEN 0 ELSE t[1].n + TextLen(Tail(t))

\* utils.cleanText: text.replace(/\s+/g, " ").replace(/\n/g, " ").trim():
\* every whitespace run becomes one space, those at the two ends are dropped
cleanText(t) ==
  LET collapsed == [i \in 1..Len(t) |-> IF t[i].w = " " THEN [t[i] EXCEPT !.n = 1] ELSE t[i]]
      inked == {i \in 1..Len(t) : t[i].w # " "}
  IN IF inked = {} THEN <<>>
     ELSE SubSeq(collapsed,
                 CHOOSE i \in inked : \A j \in inked : i <= j,
                 CHOOSE i \in inked : \A j \in inked : i >= j)

\* String.substring(0, k)
Substring_whole(t, k) == t
RECURSIVE Substring(_, _)
Substring(t, k) ==
  IF Len(t) = 0 \/ k = 0 THEN <<>>
  ELSE IF t[1].n <= k THEN <<t[1]>> \o Substring(Tail(t), k - t[1].n)
  ELSE <<[t[1] EXCEPT !.n = k]>>

\* Array.join(sep) of texts
RECURSIVE JoinTexts(_, _)
JoinTexts(ts, sep) ==
  IF Len(ts) = 0 THEN <<>>
  ELSE IF Len(ts) = 1 THEN ts[1]
  ELSE ts[1] \o sep \o JoinTexts(Tail(ts), sep)

\* x || fallback, for strings
OrDefault(t, fallback) == IF Len(t) > 0 THEN t ELSE fallback

UntitledJob == T("Untitled Job", 12)
NoDescription == T("No description available", 24)
NotSpecified == T("Not specified", 13)
FixedPrice == T("Fixed Price", 11)
Hourly == T("Hourly", 6)

\* A global pattern is given by the phrases it matches something in, with
\* the text matched in each; NoMatch is a pattern matching none of them.
NoMatch == [w \in {} |-> <<>>]
budgetPatterns ==
  <<NoMatch,
    ("Budget: $500 - $800, " :> T("$500 - $800, ", 13)) @@ ("$50/hour" :> T("$50", 3)),
    NoMatch,
    ("Budget: $500 - $800, " :> T("Budget: $500", 12))>>
hourlyPatterns ==
  <<NoMatch,
    ("$50/hour" :> T("$50/hour", 8)),
    ("20/hr" :> T("20/hr", 5)),
    NoMatch>>
timePatterns ==
  <<NoMatch, ("2 days ago" :> T("2 days ago", 10)), NoMatch, NoMatch, NoMatch>>
clientPatterns ==
  <<("3 reviews" :> T("3 reviews", 9)),
    NoMatch,
    ("Payment verified" :> T("Payment verified", 16)),
    ("Payment verified" :> T("verified", 8)),
    NoMatch>>
skillPatterns ==
  <<("Python" :> T("Python", 6)), NoMatch, NoMatch, NoMatch, NoMatch, NoMatch, NoMatch>>

\* text.match(pattern) for a global pattern: every match, in text order (the
\* empty list where the code gets null)
RECURSIVE Match(_, _)
Match(t, pattern) ==
  IF Len(t) = 0 THEN <<>>
  ELSE (IF t[1].w \in DOMAIN pattern THEN <<pattern[t[1].w]>> ELSE <<>>)
       \o Match(Tail(t), pattern)

\* for (const pattern of patterns) { matches = text.match(pattern);
\*   if (matches) { ...; break } }: the matches of the first pattern that has any
RECURSIVE FirstMatches(_, _)
FirstMatches(t, patterns) ==
  IF Len(patterns) = 0 THEN <<>>
  ELSE IF Len(Match(t, patterns[1])) > 0 THEN Match(t, patterns[1])
  ELSE FirstMatches(t, Tail(patterns))

\* matches[0] of the first pattern that matched, "" when none did
FirstOf(matches) == IF Len(matches) > 0 THEN matches[1] ELSE <<>>

\* elementText.split("\n").map(line => cleanText(line))
CleanLines(ls) == [i \in 1..Len(ls) |-> cleanText(ls[i])]

\* the loop over titleSelectors: title after the children of tEls, the
\* matched ones in selector order, were read
RECURSIVE TitleLoop(_, _)
TitleLoop(title, tEls) ==
  IF Len(tEls) = 0 THEN title
  ELSE LET t == cleanText(tEls[1])
       IN IF Len(t) > 0 /\ t # UntitledJob THEN t ELSE TitleLoop(t, Tail(tEls))

\* line.length > 10 && line.length < 100 && !line.includes("₹") &&
\* !line.includes("$")
IsTitleLine(line) ==
  /\ TextLen(line) > 10
  /\ TextLen(line) < 100
  /\ ~\E i \in 1..Len(line) : line[i].w \in {"Budget: $500 - $800, ", "$50/hour"}

ExtractTitle(tEls, allLines) ==
  LET title == TitleLoop(UntitledJob, tEls)
      candidates == SelectSeq(CleanLines(allLines), IsTitleLine)
  IN IF title = UntitledJob /\ Len(candidates) > 0 THEN candidates[1] ELSE title

\* the loop over descSelectors
RECURSIVE DescLoop(_)
DescLoop(dEls) ==
  IF Len(dEls) = 0 THEN NoDescription
  ELSE LET text == cleanText(dEls[1])
       IN IF Len(text) > 0 /\ TextLen(text) > 20 THEN Substring(text, 500)
          ELSE DescLoop(Tail(dEls))

ExtractDescription(dEls, allLines) ==
  LET description == DescLoop(dEls)
      \* .filter(line => line.length > 30 && line.length < 300).slice(1, 3)
      kept == SelectSeq(CleanLines(allLines),
                        LAMBDA line : TextLen(line) > 30 /\ TextLen(line) < 300)
  IN IF description = NoDescription
       THEN Substring(JoinTexts(SubSeq(kept, 2, Min(3, Len(kept))), T(" ", 1)), 500)
       ELSE description

\* jobType after the budget loop and then the hourly loop
JobTypeOf_budgetWins(budgetMatches, hourlyMatches) ==
  IF Len(budgetMatches) > 0 THEN FixedPrice
  ELSE IF Len(hourlyMatches) > 0 THEN Hourly
  ELSE NotSpecified
JobTypeOf(budgetMatches, hourlyMatches) ==
  IF Len(hourlyMatches) > 0 THEN Hourly
  ELSE IF Len(budgetMatches) > 0 THEN FixedPrice
  ELSE NotSpecified

\* Array.from(new Set(skills)) over the matches of all skill patterns
extractSkillsFromText(t) ==
  LET skills == Concat([i \in 1..Len(skillPatterns) |-> Match(t, skillPatterns[i])])
      firsts == {i \in 1..Len(skills) : \A j \in 1..(i - 1) : skills[j] # skills[i]}
  IN [k \in 1..Cardinality(firsts) |->
        skills[CHOOSE i \in firsts : Cardinality({j \in firsts : j <= i}) = k]]

\* element.textContent() is the text of each child on a line of its own,
\* then the lines of the other nodes
extractJobFromElement(tEls, dEls, ls, link) ==
  LET allLines == tEls \o dEls \o ls
      elementText == Concat(allLines)
      budgetMatches == FirstMatches(elementText, budgetPatterns)
      hourlyMatches == FirstMatches(elementText, hourlyPatterns)
      clientMatches == FirstMatches(elementText, clientPatterns)
      \* elementText.toLowerCase().includes(word) for one of the words
      Mentions(words) == \E i \in 1..Len(elementText) : elementText[i].w \in words
      \* href.startsWith("http") ? href : `${this.baseUrl}${href}`
      jobUrl == IF link = <<>> THEN <<>>
                ELSE IF link[1][1].w = "http" THEN link[1]
                ELSE T("https://www.freelancer.in", 25) \o link[1]
      \* clientMatches.slice(0, 2).join(", ")
      clientInfo == IF Len(clientMatches) > 0
                      THEN JoinTexts(Slice(clientMatches, 2), T(", ", 2))
                      ELSE T("Client information not available", 32)
      experienceLevel ==
        IF Mentions({"Entry level", "Beginner"}) THEN T("Entry Level", 11)
        ELSE IF Mentions({"Intermediate"}) THEN T("Intermediate", 12)
        ELSE IF Mentions({"Expert", "Advanced"}) THEN T("Expert", 6)
        ELSE NotSpecified
  IN [title |-> OrDefault(ExtractTitle(tEls, allLines), UntitledJob),
      description |-> OrDefault(ExtractDescription(dEls, allLines), NoDescription),
      budget |-> FirstOf(budgetMatches),
      hourlyRate |-> FirstOf(hourlyMatches),
      skills |-> extractSkillsFromText(elementText),
      postedTime |-> OrDefault(FirstOf(FirstMatches(elementText, timePatterns)),
                               T("Recently posted", 15)),
      clientInfo |-> OrDefault(clientInfo, T("Client information not available", 32)),
      jobUrl |-> jobUrl,
      jobType |-> OrDefault(JobTypeOf(budgetMatches, hourlyMatches), NotSpecified),
      duration |-> NotSpecified,
      experienceLevel |-> OrDefault(experienceLevel, NotSpecified),
      platform |-> T("freelancer", 10)]

\* const job = await this.extractJobFromElement(element), returning a listing
ExtractReturn ==
  /\ epc = "call"
  /\ listing' = <<extractJobFromElement(titleEls, descEls, lines, href)>>
  /\ epc' = "done"
  /\ UNCHANGED <<lines, titleEls, descEls, href>>
  /\ UNCHANGED <<ovars, avars, cvars, nvars, xvars, rvars, kvars, svars, uvars, config, adapters, instances>>

\* a page operation throws (the element is gone): the catch returns null
ExtractThrow ==
  /\ epc = "call"
  /\ listing' = None
  /\ epc' = "done"
  /\ UNCHANGED <<lines, titleEls, descEls, href>>
  /\ UNCHANGED <<ovars, avars, cvars, nvars, xvars, rvars, kvars, svars, uvars, config, adapters, instances>>

\* the field extractor on its own, about to be called on some element: the
\* lines of its text outside the children, the texts of the children the
\* title and description selectors find, the href of its link if any
InitExtract ==
  /\ platforms = <<>>
  /\ maxJobs = 0
  /\ ScraperStart
  /\ RetryOff
  /\ CsvOff
  /\ statResults = <<>> /\ stats = None
  /\ filters = None /\ url = None
  /\ epc = "call"
  /\ lines \in SeqsUpTo(
       {T("Budget: $500 - $800, ", 21) \o T("3 reviews", 9) \o T(", ", 2)
          \o T("Payment verified", 16),
        T(" ", 2) \o T("Python", 6) \o T(" ", 3) \o T("x", 33) \o T(" ", 2),
        T("$50/hour", 8),
        T("x", 250) \o T(" ", 1) \o T("Expert", 6) \o T(" ", 1) \o T("2 days ago", 10),
        T("20/hr", 5) \o T(", ", 2) \o T("Payment verified", 16),
        T("x", 10)}, MaxLines)
  /\ titleEls \in SeqsUpTo({<<>>, UntitledJob, T(" ", 1) \o T("Fix my site", 11) \o T(" ", 1)},
                           MaxTitleEls)
  /\ descEls \in SeqsUpTo({<<>>, T("x", 20), T("x", 600)}, MaxDescEls)
  /\ href \in {<<>>, <<T("/projects/42", 12)>>, <<T("http", 4) \o T("s://x.in/job/7", 14)>>}
  /\ listing = None
  /\ config = None /\ adapters = <<>> /\ instances = <<>>

NextExtract == ExtractReturn \/ ExtractThrow

SpecExtract == InitExtract /\ [][NextExtract]_vars

\* ------------------------------ ScraperOrchestrator: configuration, registry
\* { ...base, ...partial }, and base.x ?? default for a partial without nulls:
\* the fields the partial gives replace those of base
Merge(base, partial) ==
  [f \in DOMAIN base |-> IF partial[f] # <<>> THEN partial[f][1] ELSE base[f]]

\* Partial<ScrapingConfig>: the values a caller gives, each one optional
ConfigUpdates ==
  [headless : Optional({FALSE}),
   timeout : Optional({30000}),
   maxJobs : Optional({5}),
   outputFormat : Optional({"json"}),
   delayBetweenRequests : Optional({0}),
   retryAttempts : Optional({0})]

\* initializeAdapters: adapterConfig = {timeout, maxJobs, ...} of this.config;
\* this.adapters.set(Platform.FREELANCER, new FreelancerAdapter(adapterConfig))
initializeAdapters_inPlace(cfg, insts, regs) ==
  LET adapterConfig == [timeout |-> cfg.timeout, maxJobs |-> cfg.maxJobs,
                        delayBetweenRequests |-> cfg.delayBetweenRequests,
                        retryAttempts |-> cfg.retryAttempts, headless |-> cfg.headless]
  IN IF platformName \in DOMAIN regs
       THEN [instances |-> [insts EXCEPT ![regs[platformName]] = adapterConfig],
             adapters |-> regs]
       ELSE [instances |-> Append(insts, adapterConfig),
             adapters |-> (platformName :> (Len(insts) + 1)) @@ regs]
initializeAdapters(cfg, insts, regs) ==
  LET adapterConfig == [timeout |-> cfg.timeout, maxJobs |-> cfg.maxJobs,
                        delayBetweenRequests |-> cfg.delayBetweenRequests,
                        retryAttempts |-> cfg.retryAttempts, headless |-> cfg.headless]
  IN [instances |-> Append(insts, adapterConfig),
      adapters |-> (platformName :> (Len(insts) + 1)) @@ regs]

\* updateConfig(newConfig): this.config = {...this.config, ...newConfig};
\* this.initializeAdapters()
UpdateConfig ==
  /\ config # None
  /\ Len(instances) <= MaxUpdates
  /\ \E newConfig \in ConfigUpdates :
       LET merged == Merge(config[1], newConfig)
           built == initializeAdapters(merged, instances, adapters)
       IN /\ config' = <<merged>>
          /\ instances' = built.instances
          /\ adapters' = built.adapters
  /\ UNCHANGED <<ovars, avars, cvars, nvars, xvars, rvars, kvars, svars, uvars, evars>>

\* new ScraperOrchestrator(config): the defaults, the given values over
\* them, an empty registry, then initializeAdapters()
InitConfig ==
  /\ platforms = <<>>
  /\ maxJobs = 0
  /\ ScraperStart
  /\ RetryOff
  /\ CsvOff
  /\ statResults = <<>> /\ stats = None
  /\ filters = None /\ url = None
  /\ epc = "off" /\ lines = <<>> /\ titleEls = <<>> /\ descEls = <<>>
  /\ href = <<>> /\ listing = None
  /\ \E given \in ConfigUpdates :
       LET defaults == [headless |-> TRUE, timeout |-> 60000, maxJobs |-> 20,
                        outputFormat |-> "csv", delayBetweenRequests |-> 2000,
                        retryAttempts |-> retryAttempts]
           built == initializeAdapters(Merge(defaults, given), <<>>, <<>>)
       IN /\ config = <<Merge(defaults, given)>>
          /\ instances = built.instances
          /\ adapters = built.adapters

NextConfig == UpdateConfig

SpecConfig == InitConfig /\ [][NextConfig]_vars

\* ------------------------------------------------------------------- claims
Active(c) == spc[c] \notin {"idle", "returned", "raised"}

\* C1: scrapeFromMultiplePlatforms never raises and returns one result per
\* requested platform, in request order and carrying that platform's id; a
\* platform that failed (a stage threw, or no adapter is registered) has a
\* success=false result with one error text, and every registered platform of
\* the list has been scraped whatever happened to the ones before it.
C1_OneResultPerPlatform ==
  /\ opc # "raised"
  /\ \A i \in 1..Len(results) : i <= Len(platforms) /\ results[i].platform = platforms[i]
  /\ opc = "done" =>
       /\ Len(results) = Len(platforms)
       /\ \A i \in 1..Len(platforms) :
            /\ platforms[i] \in Registered => spc[i] = "returned"
            /\ (platforms[i] \notin Registered \/ stageErr[i] # None) =>
                 /\ results[i].success = FALSE
                 /\ Len(results[i].errors) = 1
                 /\ results[i].jobs = <<>>
            /\ (platforms[i] \in Registered /\ stageErr[i] = None) =>
                 results[i].success = TRUE

\* C1 witness: a run over two platforms has returned; the first failed in a
\* stage, the second was still scraped, found jobs and its persistence failed
C1_Witness ==
  /\ opc = "done"
  /\ Len(platforms) = 2
  /\ results[1].success = FALSE /\ results[1].errors = <<"goto">>
  /\ results[2].success = TRUE /\ Len(results[2].jobs) > 0
  /\ 2 \notin persisted

\* C2 (as claimed): when scrape returns, close has been requested on every
\* browser and page that call acquired.
C2_AcquiredResourcesClosed ==
  \A c \in Calls : spc[c] = "returned" =>
    \A r \in created : r[1] = c => r \in closeCalled

\* C3: an exception in initialize, navigateToJobsPage or extractJobs becomes a
\* returned success=false result whose errors list is exactly the exception's
\* message; scrape never raises, and scrapeFromPlatform raises only for an id
\* with no registered adapter.
C3_StageErrorBecomesFailedResult ==
  /\ \A c \in Calls : spc[c] # "raised"
  /\ \A c \in Calls : (spc[c] = "returned" /\ stageErr[c] # None) =>
       /\ sres[c][1].success = FALSE
       /\ stageErr[c][1].isError => sres[c][1].errors = <<stageErr[c][1].message>>
       /\ ~stageErr[c][1].isError => sres[c][1].errors = <<"Unknown error">>
  /\ opc = "catch" => platforms[idx] \notin Registered
  /\ (opc \in {"save", "push"} /\ platforms[idx] \in Registered) => cur = sres[idx]

\* C3 witness: one call failed in initialize and the next one in extractJobs,
\* and both failures were returned as results
C3_Witness ==
  /\ Len(results) = 2
  /\ results[1].success = FALSE /\ results[1].errors = <<"newPage">>
  /\ results[2].success = FALSE /\ results[2].errors = <<"query">>
  /\ spc[1] = "returned" /\ spc[2] = "returned"

\* C4: cleanup runs exactly once, at the end of the scrape call, and an error
\* thrown by page.close() or browser.close() is swallowed: scrape returns, and
\* success, jobs and errors are what the stages alone determine.
C4_CleanupOnceOutcomeKept ==
  \A c \in Calls :
    /\ spc[c] # "raised"
    /\ cleanups[c] = (IF spc[c] \in {"closePage", "closeBrowser", "returned"} THEN 1 ELSE 0)
    /\ spc[c] = "returned" =>
         /\ sres[c][1].success = (stageErr[c] = None)
         /\ sres[c][1].jobs = ejobs[c]
         /\ stageErr[c] = None => sres[c][1].errors = <<>>
         /\ stageErr[c] # None => Len(sres[c][1].errors) = 1

\* C4 witness: page.close() threw during the cleanup of a call that had
\* extracted jobs, and the call returned its successful result
C4_Witness ==
  \E c \in Calls :
    /\ spc[c] = "returned"
    /\ <<c, "page">> \in closeCalled /\ <<c, "page">> \in open
    /\ <<c, "browser">> \notin closeCalled
    /\ sres[c][1].success /\ Len(sres[c][1].jobs) > 0

\* C5: for an id with no registered adapter scrapeFromPlatform raises at once:
\* no adapter operation is invoked for it, nothing is persisted for it and it
\* returns no result (the entry in the list comes from the caller's catch).
C5_UnknownPlatformRaises ==
  \A i \in 1..Len(platforms) : platforms[i] \notin Registered =>
    /\ spc[i] = "idle"
    /\ \A t \in touched : t[1] # i
    /\ i \notin persisted
    /\ idx = i => (cur = None /\ opc \in {"loop", "catch"})
    /\ idx > i => results[i].searchQuery = "N/A"

\* C5 witness: the lookup of an unregistered id has just thrown
C5_Witness ==
  /\ opc = "catch"
  /\ platforms[idx] \notin Registered
  /\ othrown # None
  /\ idx = 2 /\ spc[1] = "returned"

\* C6: platforms are processed one at a time: a scrape call is between the
\* start of initialize and the end of cleanup only while the orchestrator
\* awaits that very call, and a later platform's call has started only once
\* every earlier call and its per-platform persistence are over.
C6_OnePlatformAtATime ==
  /\ \A c \in Calls : Active(c) => (idx = c /\ opc = "await")
  /\ Cardinality({c \in Calls : Active(c)}) <= 1
  /\ \A c, d \in Calls : (c < d /\ spc[d] # "idle") =>
       (~Active(c) /\ idx >= d /\ c <= Len(results))

\* C6 witness: the second platform's initialize is running after the first
\* platform's scrape returned and its jobs were persisted
C6_Witness ==
  /\ Active(2) /\ spc[2] = "launch"
  /\ spc[1] = "returned" /\ 1 \in persisted

\* C7 (as claimed): a browser or page is only ever used or closed by the
\* scrape call that acquired it.
C7_NoSessionSharing ==
  \A t \in touched : t[2][1] = t[1]

\* C8 (as claimed): when the run is over, a wait has followed every requested
\* platform but the last, and none has followed the last.
C8_DelayBetweenPlatformsOnly ==
  opc = "done" => waits = [i \in 1..(Len(platforms) - 1) |-> i]

\* C9 (as claimed): once a tier has located at least one candidate element,
\* no later tier is queried.
C9_FirstLocatingTierWins ==
  \A c \in Calls : \A k \in 1..(Len(tierLog[c]) - 1) : ~tierLog[c][k].located

\* C9 (amended): the tiers are queried in the order modern, legacy, generic;
\* a later tier is queried only when every earlier tier yielded no listing,
\* and extraction stops at the first tier that yields at least one listing.
C9_FirstYieldingTierWins ==
  \A c \in Calls :
    LET log == tierLog[c] IN
    /\ Len(log) <= Len(Tiers)
    /\ \A k \in 1..Len(log) : log[k].tier = Tiers[k]
    /\ \A k \in 1..(Len(log) - 1) : ~log[k].yielded
    /\ spc[c] = "legacy" => (Len(log) = 1 /\ ~log[1].yielded)
    /\ spc[c] = "generic" => (Len(log) = 2 /\ ~log[2].yielded)
    /\ (spc[c] = "finish" /\ Len(log) < Len(Tiers)) => log[Len(log)].yielded

\* C9 witness: the modern tier located elements, none of them gave a listing,
\* and the legacy tier was queried and gave one
C9_Witness ==
  \E c \in Calls :
    /\ Len(tierLog[c]) = 2
    /\ tierLog[c][1].located /\ ~tierLog[c][1].yielded
    /\ tierLog[c][2].yielded
    /\ spc[c] = "finish"

\* C10 (as claimed): whatever maxJobs is, a successful scrape returns at most
\* maxJobs listings.
C10_AtMostMaxJobs ==
  \A c \in Calls : (sres[c] # None /\ sres[c][1].success) =>
    Len(sres[c][1].jobs) <= maxJobs

\* C10 (amended): for maxJobs >= 0 at most maxJobs listings are returned (the
\* first ones in discovery order); a negative maxJobs = -k returns all but the
\* last k extracted listings.
C10_AtMostMaxJobsWhenNonNegative ==
  \A c \in Calls : (sres[c] # None /\ sres[c][1].success) =>
    LET jobs == sres[c][1].jobs IN
    /\ maxJobs >= 0 => Len(jobs) <= maxJobs
    /\ (spc[c] = "closePage" /\ maxJobs >= 0) => Len(jobs) = Min(maxJobs, nExtracted[c])
    /\ (spc[c] = "closePage" /\ maxJobs < 0) => Len(jobs) = Max(nExtracted[c] + maxJobs, 0)
    /\ \A i \in 1..Len(jobs) : jobs[i].id = i

\* C10 witness: more listings were extracted than maxJobs allows and the
\* result was cut to maxJobs
C10_Witness ==
  \E c \in Calls :
    /\ sres[c] # None /\ sres[c][1].success
    /\ maxJobs >= 1
    /\ nExtracted[c] > maxJobs
    /\ Len(sres[c][1].jobs) = maxJobs

RECURSIVE Pow2(_)
Pow2(n) == IF n = 0 THEN 1 ELSE 2 * Pow2(n - 1)

RECURSIVE SumSeq(_)
SumSeq(s) == IF Len(s) = 0 THEN 0 ELSE s[1] + SumSeq(Tail(s))

\* C12: when retry returns, the operation failed some k < maxAttempts times
\* before succeeding; it was invoked exactly k+1 times and the waits made were
\* baseDelay, 2*baseDelay, ..., k of them, totalling baseDelay * (2^k - 1).
C12_RetryBackoffUntilSuccess ==
  rpc = "returned" =>
    LET k == failures IN
    /\ 0 <= k /\ k < maxAttempts
    /\ invocations = k + 1
    /\ Len(rwaits) = k
    /\ \A i \in 1..k : rwaits[i] = baseDelay * Pow2(i - 1)
    /\ SumSeq(rwaits) = baseDelay * (Pow2(k) - 1)
    /\ rraised = None

\* C12 witness: the operation failed twice and succeeded at the third attempt
C12_Witness ==
  /\ rpc = "returned"
  /\ failures = 2
  /\ baseDelay = 2
  /\ rwaits = <<2, 4>>

\* C13: for maxAttempts >= 1 the operation is never invoked more than
\* maxAttempts times, and when every invocation failed retry ends by raising
\* the error of attempt maxAttempts after exactly maxAttempts invocations,
\* having waited once after each failure but the last.
C13_RetryRaisesAfterMaxAttempts ==
  maxAttempts >= 1 =>
    /\ invocations <= maxAttempts
    /\ Len(rwaits) <= maxAttempts - 1
    /\ (rpc = "loop" /\ failures = invocations) => attempt <= maxAttempts
    /\ rpc = "raised" =>
         /\ failures = invocations
         /\ invocations = maxAttempts
         /\ Len(rwaits) = maxAttempts - 1
         /\ rraised # None /\ rraised = lastError
         /\ rraised[1].attempt = maxAttempts

\* C13 witness: three attempts all failed and the third one's error was raised
C13_Witness ==
  /\ rpc = "raised"
  /\ maxAttempts = 3
  /\ invocations = 3
  /\ Len(rwaits) = 2
  /\ rraised[1].attempt = 3

\* C11 (as claimed): when no ready selector appeared, the diagnostic snapshot
\* is best-effort, so no scrape call ever fails because of the snapshot.
C11_SnapshotFailureNonFatal ==
  \A c \in Calls : stageErr[c] # None => stageErr[c][1].message # "screenshot"

\* C14 (as claimed): when a scrape call is reported failed because of the page
\* load, the load has been requested retryAttempts times.
C14_PageLoadRetried ==
  \A c \in Calls :
    (stageErr[c] # None /\ stageErr[c][1].message = "goto") => loads[c] = retryAttempts

OkCount(content) == Cardinality({i \in 1..Len(content) : content[i] = "ok"})

\* C17: within the element list of the selector that was used, every element
\* that parses gives a listing and every element that does not is skipped,
\* without failing the extraction: extractJobs holds as many listings as there
\* are parseable elements, in discovery order, and returns a prefix of them,
\* the first maxJobs when maxJobs >= 0.
C17_FailedElementsSkipped ==
  \A c \in Calls :
    /\ elems[c] # <<>> => stageErr[c] = None
    /\ spc[c] = "finish" =>
         ejobs[c] = [i \in 1..OkCount(elems[c]) |-> JobOf(i)]
    /\ (spc[c] = "closePage" /\ sres[c] # None /\ sres[c][1].success) =>
         LET jobs == sres[c][1].jobs IN
         /\ nExtracted[c] = OkCount(elems[c])
         /\ Len(jobs) <= OkCount(elems[c])
         /\ \A i \in 1..Len(jobs) : jobs[i].id = i
         /\ maxJobs >= 0 => Len(jobs) = Min(maxJobs, OkCount(elems[c]))

\* C17 witness: the first element failed to parse, the second one was still
\* extracted and is the listing the successful call returns
C17_Witness ==
  \E c \in Calls :
    /\ spc[c] = "closePage"
    /\ elems[c] = <<"bad", "ok">>
    /\ sres[c] # None /\ sres[c][1].success
    /\ maxJobs = 1
    /\ Len(sres[c][1].jobs) = 1

\* C18: every listing of a result returned by scrape carries the result's
\* platform, which is the id under which the adapter is registered and was
\* requested.
C18_ListingsCarryPlatform ==
  \A c \in Calls : sres[c] # None =>
    LET r == sres[c][1] IN
    /\ r.platform = platformName
    /\ r.platform \in Registered
    /\ r.platform = platforms[c]
    /\ \A i \in 1..Len(r.jobs) : r.jobs[i].platform = r.platform

\* C18 witness: a scrape call has returned a result with a listing
C18_Witness ==
  \E c \in Calls :
    /\ spc[c] = "returned"
    /\ sres[c][1].success
    /\ Len(sres[c][1].jobs) >= 1
    /\ sres[c][1].jobs[1].platform = "freelancer"

\* C19 (as claimed): every result of a run carries the descriptive summary of
\* the request's filters as its searchQuery.
C19_SearchQueryIsFilterSummary ==
  /\ \A c \in Calls : sres[c] # None => sres[c][1].searchQuery = "summary"
  /\ cur # None => cur[1].searchQuery = "summary"
  /\ \A i \in 1..Len(results) : results[i].searchQuery = "summary"

Count(log, x) == Cardinality({i \in 1..Len(log) : log[i] = x})

\* C20: the per-platform persistence has been invoked, once, for exactly the
\* processed platforms whose result has at least one listing; the combined
\* persistence is invoked at most once, as the last persistence call of the
\* run, once every platform has been processed, and it has been invoked when
\* the run is over if and only if the results together hold a listing.
C20_PersistenceIffListings ==
  /\ \A i \in 1..Len(results) :
       Count(saveLog, i) = (IF Len(results[i].jobs) > 0 THEN 1 ELSE 0)
  /\ \A i \in 1..Len(platforms) :
       (i > Len(results) /\ ~(i = idx /\ opc = "push")) => Count(saveLog, i) = 0
  /\ opc = "push" => Count(saveLog, idx) = (IF Len(cur[1].jobs) > 0 THEN 1 ELSE 0)
  /\ Count(saveLog, CombinedArtifact) <= 1
  /\ Count(saveLog, CombinedArtifact) = 1 =>
       /\ opc = "done"
       /\ saveLog[Len(saveLog)] = CombinedArtifact
  /\ opc = "done" =>
       (Count(saveLog, CombinedArtifact) = 1 <=> Len(FlatJobs(results, 1)) > 0)

\* C20 witness: of two platforms the first succeeded with no listing and was
\* not persisted, the second had a listing and was; the combined artifact was
\* written last
C20_Witness ==
  /\ opc = "done"
  /\ Len(results) = 2
  /\ results[1].success /\ results[1].jobs = <<>>
  /\ Len(results[2].jobs) > 0
  /\ saveLog = <<2, CombinedArtifact>>

\* C15 (as claimed): a description holding a comma, a double quote and a
\* newline is read back from the CSV artifact unchanged.
C15_DescriptionRoundTrip ==
  cpc = "read" =>
    \A j \in 1..Len(cjobs) :
      LET d == cjobs[j].description IN
      (Includes(d, Comma) /\ Includes(d, Quote) /\ Includes(d, Newline)) =>
        /\ Len(parsed) > j
        /\ Len(parsed[j + 1]) >= 2
        /\ parsed[j + 1][2] = d

\* C15 (amended): the description read back is the original with every
\* newline replaced by a space and every comma by a semicolon; double quotes
\* and all other text come back unchanged.
C15_DescriptionRoundTripNormalised ==
  cpc = "read" =>
    /\ Len(parsed) = Len(cjobs) + 1
    /\ \A j \in 1..Len(cjobs) :
         LET d == cjobs[j].description
             p == parsed[j + 1][2]
         IN /\ Len(p) = Len(d)
            /\ \A i \in 1..Len(d) :
                 p[i] = (IF d[i] = Newline THEN Space
                         ELSE IF d[i] = Comma THEN Semi
                         ELSE d[i])

\* C15 witness: a description made of a comma, a quote and a newline was
\* written and read back with the quote kept and the other two replaced
C15_Witness ==
  /\ cpc = "read"
  /\ cjobs[1].description = <<Comma, Quote, Newline>>
  /\ parsed[2][2] = <<Semi, Quote, Space>>

\* C16: a field is emitted between double quotes, its own quotes doubled,
\* exactly when its value holds a comma, a double quote or a newline, and is
\* emitted as it is otherwise; the artifact then reads back as the header row
\* followed by one row per listing, each of exactly the 12 header columns
\* with the record's values in header order.
C16_QuotedIffSpecialAndRowsParse ==
  cpc \in {"written", "read"} =>
    \A j \in 1..Len(cjobs) :
      LET record == jobDataToCsvRecord(cjobs[j]) IN
      /\ \A k \in 1..Len(Headers) :
           LET v == record[Headers[k]]
               f == CsvField(v)
               special == \E i \in 1..Len(v) : v[i] \in {Comma, Quote, Newline}
           IN /\ special =>
                   /\ Len(f) = Len(v) + Count(v, Quote) + 2
                   /\ f[1] = Quote /\ f[Len(f)] = Quote
                   /\ Count(SubSeq(f, 2, Len(f) - 1), Quote) = 2 * Count(v, Quote)
                   /\ SelectSeq(f, LAMBDA x : x # Quote) = SelectSeq(v, LAMBDA x : x # Quote)
              /\ ~special => f = v
      /\ cpc = "read" =>
           /\ Len(parsed) = Len(cjobs) + 1
           /\ parsed[1] = [k \in 1..Len(Headers) |-> <<Headers[k]>>]
           /\ Len(Headers) = 12
           /\ Len(parsed[j + 1]) = 12
           /\ \A k \in 1..Len(Headers) : parsed[j + 1][k] = record[Headers[k]]

\* C16 witness: two listings, the first with a newline in its title and a
\* comma in a skill, were written and read back as three rows of 12 columns
C16_Witness ==
  /\ cpc = "read"
  /\ Len(cjobs) = 2
  /\ cjobs[1].title = <<Newline>>
  /\ cjobs[1].skills = <<<<Letter, Comma>>>>
  /\ Len(parsed) = 3
  /\ Len(parsed[2]) = 12 /\ Len(parsed[3]) = 12
  /\ parsed[2][1] = <<Newline>>

\* C26: a scrapeFromMultiplePlatforms call eventually returns, whatever the
\* collaborator calls answer, as long as each of them completes.
C26_RunTerminates == <>(opc = "done")

\* C26 witness: a run over two registered platforms has returned, the first
\* call having failed and the second having found listings
C26_Witness ==
  /\ opc = "done"
  /\ Len(results) = 2
  /\ spc[1] = "returned" /\ spc[2] = "returned"
  /\ ~results[1].success /\ Len(results[2].jobs) > 0

\* C27: a scrape call moves through initialize, navigateToJobsPage and
\* extractJobs in that order and never back; a stage is entered only from the
\* normal completion of the one before; a failing stage leads straight to
\* cleanup with a success=false result, the end of extraction leads to cleanup
\* with a success=true result, and nothing follows cleanup but the return.
C27_StagesInOrder ==
  [][LET InitializePcs == {"launch", "newPage", "setup"}
         NavigatePcs == {"goto", "waitSel", "screenshot", "settle"}
         ExtractPcs == {"modern", "legacy", "generic", "finish"}
         StageEdges ==
           {<<"idle", "launch">>, <<"launch", "newPage">>, <<"newPage", "setup">>,
            <<"setup", "goto">>, <<"goto", "waitSel">>, <<"waitSel", "settle">>,
            <<"waitSel", "screenshot">>, <<"screenshot", "settle">>,
            <<"settle", "modern">>, <<"modern", "legacy">>, <<"modern", "finish">>,
            <<"legacy", "generic">>, <<"legacy", "finish">>, <<"generic", "finish">>}
         CleanupEdges ==
           {<<"closePage", "closeBrowser">>, <<"closePage", "returned">>,
            <<"closeBrowser", "returned">>}
     IN
     \A c \in Calls : spc'[c] # spc[c] =>
       \/ /\ <<spc[c], spc'[c]>> \in StageEdges
          /\ stageErr'[c] = None /\ sres'[c] = None
       \/ /\ spc[c] \in (InitializePcs \cup NavigatePcs \cup ExtractPcs) \ {"finish"}
          /\ spc'[c] = "closePage"
          /\ stageErr'[c] # None
          /\ sres'[c] # None /\ ~sres'[c][1].success
       \/ /\ spc[c] = "finish" /\ spc'[c] = "closePage"
          /\ stageErr'[c] = None
          /\ sres'[c] # None /\ sres'[c][1].success
       \/ /\ <<spc[c], spc'[c]>> \in CleanupEdges
          /\ sres'[c] = sres[c] /\ stageErr'[c] = stageErr[c]
          /\ sres[c] # None
          /\ sres[c][1].success = (stageErr[c] = None)
    ]_vars

\* C27 witness: initialize failed at newPage; the call returned a failed
\* result without ever requesting a page load
C27_Witness ==
  \E c \in Calls :
    /\ spc[c] = "returned"
    /\ stageErr[c] # None /\ stageErr[c][1].message = "newPage"
    /\ loads[c] = 0
    /\ ~sres[c][1].success

\* C28 (as claimed): the ready selectors are probed one after the other and
\* no selector is probed after one appeared; the snapshot is requested
\* exactly when all have been probed and none appeared; and in both cases the
\* settle delay comes next, before extraction.
C28_ProbeSnapshotSettle ==
  [][\A c \in Calls :
       /\ probes'[c] > probes[c] =>
            /\ spc[c] = "waitSel" /\ ~contentLoaded[c]
            /\ probes'[c] = probes[c] + 1
            /\ probes'[c] <= NumReadySelectors
       /\ (spc[c] = "waitSel" /\ spc'[c] # "waitSel") =>
            \/ spc'[c] = "settle" /\ contentLoaded'[c]
            \/ /\ spc'[c] = "screenshot" /\ ~contentLoaded'[c]
               /\ probes'[c] = NumReadySelectors
       /\ (spc'[c] = "screenshot" /\ spc[c] # "screenshot") => spc[c] = "waitSel"
       /\ (spc[c] = "screenshot" /\ spc'[c] # "screenshot") => spc'[c] = "settle"
       /\ (spc'[c] = "modern" /\ spc[c] # "modern") => spc[c] = "settle"
    ]_vars

\* the values of the keyword parameters of a URL, in order
KeywordValues(u) ==
  LET ks == SelectSeq(u.params, LAMBDA kv : kv[1] = "keyword")
  IN [i \in 1..Len(ks) |-> ks[i][2]]

\* C25: the URL has at most one keyword parameter; with a keyword given it
\* is that keyword and the URL is the same whatever the tags are; without a
\* keyword it is the tags joined by spaces when there are tags, and absent
\* when there are none.
C25_TagsOnlyWithoutKeyword ==
  filters # None =>
    LET f == filters[1]
        u == url[1]
        hasTags == f.tags # <<>> /\ f.tags[1] # <<>>
        hasKeyword == f.keyword # <<>> /\ f.keyword[1] # <<>>
    IN /\ Len(KeywordValues(u)) <= 1
       /\ hasKeyword =>
            /\ KeywordValues(u) = <<f.keyword[1]>>
            /\ \A t \in TagLists : buildSearchUrl([f EXCEPT !.tags = t]) = u
       /\ (~hasKeyword /\ hasTags) =>
            /\ Len(KeywordValues(u)) = 1
            /\ KeywordValues(u)[1][1] = f.tags[1][1][1]
            /\ Len(KeywordValues(u)[1]) = 2 * Len(f.tags[1]) - 1
            /\ SelectSeq(KeywordValues(u)[1], LAMBDA x : x # Space)
                 = [i \in 1..Len(f.tags[1]) |-> f.tags[1][i][1]]
       /\ (~hasKeyword /\ ~hasTags) => KeywordValues(u) = <<>>

\* C25 witness: a URL was built for filters with both a keyword and two tags,
\* and another one is reachable from tags alone (checked by the formula)
C25_Witness ==
  /\ filters # None
  /\ filters[1].keyword = << <<Letter>> >>
  /\ filters[1].tags # <<>> /\ Len(filters[1].tags[1]) = 2
  /\ KeywordValues(url[1]) = << <<Letter>> >>

\* C21: getStatistics leaves its argument as it was and returns the sum of
\* the listing counts, the number of results, the number of successful ones,
\* the difference of the two as the number of failed ones, and one
\* platformStats entry per result, in input order, with that result's
\* platform, listing count, success flag and error count.
C21_StatisticsAggregate ==
  [][stats' # stats =>
       LET rs == statResults
           st == stats'[1]
       IN /\ statResults' = statResults
          /\ st.totalJobs = SumSeq([i \in 1..Len(rs) |-> Len(rs[i].jobs)])
          /\ st.totalPlatforms = Len(rs)
          /\ st.successfulPlatforms = Cardinality({i \in 1..Len(rs) : rs[i].success})
          /\ st.failedPlatforms = st.totalPlatforms - st.successfulPlatforms
          /\ Len(st.platformStats) = Len(rs)
          /\ \A i \in 1..Len(rs) :
               /\ st.platformStats[i].platform = rs[i].platform
               /\ st.platformStats[i].jobs = Len(rs[i].jobs)
               /\ st.platformStats[i].success = rs[i].success
               /\ st.platformStats[i].errors =
                    (IF rs[i].errors = <<>> THEN 0 ELSE Len(rs[i].errors[1]))
    ]_vars

\* C21 witness: statistics of two results, one successful with a listing and
\* one failed with an error
C21_Witness ==
  /\ stats # None
  /\ Len(statResults) = 2
  /\ stats[1].totalJobs = 1
  /\ stats[1].successfulPlatforms = 1 /\ stats[1].failedPlatforms = 1
  /\ stats[1].platformStats[2].errors = 1

\* C22: topSkills has at most 10 entries, one per skill, each with the number
\* of occurrences of the skill over all listings; counts never increase
\* along the list and skills with equal counts come in the order of their
\* first occurrence; a skill is left out only when the list is full, and then
\* no listed skill has a smaller count than it.
C22_TopSkillsOrdered ==
  stats # None =>
    LET top == stats[1].topSkills
        stream == SkillStream(statResults)
        listed == {top[i].skill : i \in 1..Len(top)}
        seen == {stream[i] : i \in 1..Len(stream)}
        FirstSeen(skill) == CHOOSE i \in 1..Len(stream) :
          stream[i] = skill /\ \A j \in 1..(i - 1) : stream[j] # skill
    IN /\ Len(top) <= 10
       /\ listed \subseteq seen
       /\ Cardinality(listed) = Len(top)
       /\ \A i \in 1..Len(top) : top[i].count = Count(stream, top[i].skill)
       /\ \A i, j \in 1..Len(top) : i < j =>
            /\ top[i].count >= top[j].count
            /\ top[i].count = top[j].count =>
                 FirstSeen(top[i].skill) < FirstSeen(top[j].skill)
       /\ \A s \in seen \ listed :
            /\ Len(top) = 10
            /\ \A i \in 1..Len(top) : top[i].count >= Count(stream, s)

\* C22 witness: twelve skills were seen, two of them twice; the list is full,
\* starts with the first-seen of the two and leaves two skills out
C22_Witness ==
  /\ stats # None
  /\ Len(stats[1].topSkills) = 10
  /\ stats[1].topSkills[1] = [skill |-> "React", count |-> 2]
  /\ stats[1].topSkills[2] = [skill |-> "Scala", count |-> 2]
  /\ stats[1].topSkills[3].count = 1

\* the whole text of the element
WholeText == Concat(titleEls \o descEls \o lines)

Returned == epc = "done" /\ listing # None

\* C23: a listing extracted from a text holding both a review count and a
\* payment-verification phrase has both in its clientInfo.
C23_ClientInfoHasBoth ==
  (/\ Returned
   /\ \E i \in 1..Len(WholeText) : WholeText[i].w = "3 reviews"
   /\ \E i \in 1..Len(WholeText) : WholeText[i].w = "Payment verified")
  => LET info == listing[1].clientInfo
     IN /\ \E i \in 1..Len(info) : info[i].w = "3 reviews"
        /\ \E i \in 1..Len(info) : info[i].w \in {"Payment verified", "verified"}

\* C24: jobType is Hourly exactly when an hourly pattern matched, which is
\* exactly when hourlyRate is non-empty; Fixed Price exactly when a budget
\* pattern matched and no hourly pattern did; Not specified exactly when
\* budget and hourlyRate are both empty.
C24_JobTypeFromMatches ==
  Returned =>
    LET job == listing[1]
        hourlyMatched == \E i \in 1..Len(hourlyPatterns) : Len(Match(WholeText, hourlyPatterns[i])) > 0
        budgetMatched == \E i \in 1..Len(budgetPatterns) : Len(Match(WholeText, budgetPatterns[i])) > 0
    IN /\ hourlyMatched <=> job.hourlyRate # <<>>
       /\ budgetMatched <=> job.budget # <<>>
       /\ job.jobType = Hourly <=> hourlyMatched
       /\ job.jobType = FixedPrice <=> (budgetMatched /\ ~hourlyMatched)
       /\ job.jobType = NotSpecified <=> (job.budget = <<>> /\ job.hourlyRate = <<>>)

\* C24 witness: a listing with a budget and an hourly rate, typed Hourly
C24_Witness ==
  /\ Returned
  /\ listing[1].budget # <<>>
  /\ listing[1].hourlyRate # <<>>
  /\ listing[1].jobType = Hourly

\* C29: when no title child has a non-empty text other than the placeholder,
\* the title is the first line of the element text longer than 10 and
\* shorter than 100 characters without a currency symbol, if there is one,
\* and the placeholder otherwise.
C29_TitleFallsBackToLine ==
  (/\ Returned
   /\ \A i \in 1..Len(titleEls) : cleanText(titleEls[i]) \in {<<>>, UntitledJob})
  => LET candidates == SelectSeq(CleanLines(titleEls \o descEls \o lines), IsTitleLine)
     IN listing[1].title = (IF Len(candidates) > 0 THEN candidates[1] ELSE UntitledJob)

\* C30: a returned listing has a non-empty title, description, postedTime,
\* clientInfo, jobType and experienceLevel, and a description of at most 500
\* characters.
C30_FieldsNeverEmpty ==
  Returned =>
    LET job == listing[1]
    IN /\ TextLen(job.title) > 0
       /\ TextLen(job.description) > 0
       /\ TextLen(job.postedTime) > 0
       /\ TextLen(job.clientInfo) > 0
       /\ TextLen(job.jobType) > 0
       /\ TextLen(job.experienceLevel) > 0
       /\ TextLen(job.description) <= 500

\* C30 witness: a listing whose description was cut to 500 characters and
\* whose other fields are all placeholders
C30_Witness ==
  /\ Returned
  /\ TextLen(listing[1].description) = 500
  /\ listing[1].title = UntitledJob
  /\ listing[1].postedTime = T("Recently posted", 15)
  /\ listing[1].clientInfo = T("Client information not available", 32)
  /\ listing[1].jobType = NotSpecified
  /\ listing[1].experienceLevel = NotSpecified

\* C31: at every moment the registry holds exactly the registered platform
\* ids and the adapter registered under each holds, field by field, the
\* orchestrator's current timeout, maxJobs, delayBetweenRequests,
\* retryAttempts and headless; and no step changes the configuration of an
\* adapter instance that exists.
C31_AdaptersFollowConfig ==
  /\ [](config # None =>
          /\ DOMAIN adapters = Registered
          /\ \A p \in DOMAIN adapters :
               /\ adapters[p] \in 1..Len(instances)
               /\ \A f \in {"timeout", "maxJobs", "delayBetweenRequests",
                            "retryAttempts", "headless"} :
                    instances[adapters[p]][f] = config[1][f])
  /\ [][/\ Len(instances') >= Len(instances)
        /\ \A i \in 1..Len(instances) : instances'[i] = instances[i]]_vars

\* C31 witness: two updates were made, the second changing maxJobs and
\* retryAttempts; the registered adapter is the third instance built and the
\* first instance still holds the configuration of the construction
C31_Witness ==
  /\ config # None
  /\ Len(instances) = 3
  /\ adapters["freelancer"] = 3
  /\ instances[1].maxJobs = 20 /\ instances[2].maxJobs = 20
  /\ instances[3].maxJobs = 5 /\ instances[3].retryAttempts = 0
  /\ instances[1].retryAttempts = 3

\* C35: a retry call given maxAttempts <= 0 never invokes the operation and
\* never waits; it does not return, and what it raises is the unassigned
\* lastError, not an error of the operation.
C35_NoAttemptsRaisesNothing ==
  (rpc # "off" /\ maxAttempts <= 0) =>
    /\ invocations = 0
    /\ failures = 0
    /\ rwaits = <<>>
    /\ rpc \in {"loop", "raised"}
    /\ lastError = None
    /\ rpc = "raised" => rraised = None

\* C35 witness: a call with maxAttempts = 0 has raised
C35_Witness ==
  /\ rpc = "raised"
  /\ maxAttempts = 0
  /\ invocations = 0

\* C32: the listings of the result scrape returns are the listings
\* extractJobs returned, equal field by field except for platform; from then
\* on the result of a call never changes, scrapeFromPlatform hands it over as
\* it is, persistence leaves it as it is, and a result once in the list the
\* run returns stays as it is.
C32_ListingsKeptAfterExtraction ==
  /\ [](opc = "done" =>
          \A i \in 1..Len(results) : results[i].success => results[i] = sres[i][1])
  /\ [][/\ \A c \in Calls :
             /\ sres[c] # None => sres'[c] = sres[c]
             /\ (spc[c] = "finish" /\ spc'[c] # "finish") =>
                  LET extracted == Slice(ejobs[c], maxJobs)
                      returned == sres'[c][1].jobs
                  IN /\ Len(returned) = Len(extracted)
                     /\ \A j \in 1..Len(extracted) :
                          \A f \in (DOMAIN extracted[j]) \ {"platform"} :
                            returned[j][f] = extracted[j][f]
        /\ (opc = "await" /\ opc' # "await" /\ spc[idx] = "returned") => cur' = sres[idx]
        /\ opc = "save" => cur' = cur
        /\ opc = "push" => results' = Append(results, cur[1])
        /\ Len(results') >= Len(results)
        /\ \A i \in 1..Len(results) : results'[i] = results[i]]_vars

\* C32 witness: a run ended with both artifacts of its one platform written
\* and the listing extracted first in its result
C32_Witness ==
  /\ opc = "done"
  /\ Len(results) = 1
  /\ persisted = {1} /\ combined = "saved"
  /\ Len(results[1].jobs) = 1
  /\ results[1].jobs[1].id = 1

\* C33: a failed result, of scrape or of the orchestrator, has no listing and
\* totalFound = 0; it is never handed to per-platform persistence, and the
\* listings of the combined artifact are those of the successful results.
C33_FailedResultsAreEmpty ==
  LET Empty(r) == r.jobs = <<>> /\ r.totalFound = 0 IN
  /\ \A c \in Calls : (sres[c] # None /\ ~sres[c][1].success) => Empty(sres[c][1])
  /\ (cur # None /\ ~cur[1].success) => Empty(cur[1])
  /\ opc = "save" => cur[1].success
  /\ (opc = "push" /\ ~cur[1].success) => Count(saveLog, idx) = 0
  /\ \A i \in 1..Len(results) :
       ~results[i].success => (Empty(results[i]) /\ Count(saveLog, i) = 0)
  /\ Len(FlatJobs(results, 1)) =
       SumSeq([i \in 1..Len(results) |->
                 IF results[i].success THEN Len(results[i].jobs) ELSE 0])

\* C33 witness: the first platform failed at the page load, the second gave a
\* listing; only the second and the combined artifact were written
C33_Witness ==
  /\ opc = "done"
  /\ Len(results) = 2
  /\ ~results[1].success /\ results[1].errors = <<"goto">>
  /\ results[2].success /\ Len(results[2].jobs) = 1
  /\ saveLog = <<2, CombinedArtifact>>

\* C34: a per-platform write, failed or not, leaves the result as it is and
\* lets the run go on to hand it over; the combined write, failed or not,
\* ends the run with the results as they are; a result whose write failed is
\* still successful with its listings, and a finished run has one result per
\* requested platform.
C34_PersistenceFailureSwallowed ==
  /\ [](/\ \A i \in 1..Len(results) :
             (Count(saveLog, i) > 0 /\ i \notin persisted) =>
               (results[i].success /\ Len(results[i].jobs) > 0)
        /\ opc = "done" => Len(results) = Len(platforms))
  /\ [][/\ opc = "save" =>
             (opc' = "push" /\ cur' = cur /\ results' = results /\ idx' = idx
                /\ othrown' = othrown)
        /\ (opc = "loop" /\ idx > Len(platforms)) =>
             (opc' = "done" /\ results' = results /\ othrown' = othrown)]_vars

\* C34 witness: both per-platform writes and the combined write failed; the
\* run ended with two successful results holding their listings
C34_Witness ==
  /\ opc = "done"
  /\ saveLog = <<1, 2, CombinedArtifact>>
  /\ persisted = {} /\ combined = "failed"
  /\ Len(results) = 2
  /\ \A i \in 1..2 : results[i].success /\ Len(results[i].jobs) = 1

====
